---- MODULE Spec2Model ----
(***************************************************************************)
(* Model of the rule-based compliance validation engine                    *)
(* (src/src/compliance/compliance_agent.py).                               *)
(*                                                                         *)
(* Python values are tagged records:                                       *)
(*   [t |-> "none"]                      None                              *)
(*   [t |-> "int",   c |-> n]            an int                            *)
(*   [t |-> "float", c, e, r]            a float whose repr is c * 10^-e   *)
(*                                       and whose exact binary value lies *)
(*                                       below (r=-1), on (r=0) or above   *)
(*                                       (r=1) that decimal                *)
(*   [t |-> "dec",   c, e]               a Decimal c * 10^-e               *)
(*   [t |-> "str",   s  |-> "..."]       a str the code only compares or   *)
(*                                       passes on (keys, tags, names)     *)
(*   [t |-> "str",   cs |-> <<chars>>]   a str the code reads by character *)
(*   [t |-> "dict",  d |-> function]     a dict with str keys              *)
(*   [t |-> "list",  l |-> sequence]     a list                            *)
(*   [t |-> "bool",  b |-> BOOLEAN]      a bool                            *)
(*   [t |-> "raise", exc |-> "..."]      not a value: the exception that   *)
(*                                       an evaluation ended with          *)
(***************************************************************************)
EXTENDS Integers, Sequences, FiniteSets, TLC

(***************************************************************************)
(* Python values                                                           *)
(***************************************************************************)
PyNone == [t |-> "none"]

PyInt(n) == [t |-> "int", c |-> n]

PyFloat(c, e, r) == [t |-> "float", c |-> c, e |-> e, r |-> r]

PyDec(c, e) == [t |-> "dec", c |-> c, e |-> e]

PyStr(s) == [t |-> "str", s |-> s]

PyText(cs) == [t |-> "str", cs |-> cs]

PyDict(f) == [t |-> "dict", d |-> f]

PyList(l) == [t |-> "list", l |-> l]

PyBool(b) == [t |-> "bool", b |-> b]

Raise(e) == [t |-> "raise", exc |-> e]

IsRaise(x) == "exc" \in DOMAIN x

EmptyMap == [k \in {} |-> PyNone]

EmptyDict == PyDict(EmptyMap)

\* isinstance(v, str)
IsStr(v) == v.t = "str"

\* a str whose characters are modelled
IsText(v) == v.t = "str" /\ "cs" \in DOMAIN v

\* key in d, for a dict d
HasKey(d, k) == k \in DOMAIN d.d

\* d.get(k, default); AttributeError when d is not a dict
Get(d, k, default) ==
    IF d.t # "dict" THEN Raise("AttributeError")
    ELSE IF HasKey(d, k) THEN d.d[k] ELSE default

\* d[k]; KeyError when the key is absent
Index(d, k) ==
    IF d.t # "dict" THEN Raise("TypeError")
    ELSE IF HasKey(d, k) THEN d.d[k] ELSE Raise("KeyError")

(***************************************************************************)
(* Characters and text                                                     *)
(***************************************************************************)
Digits == {"0", "1", "2", "3", "4", "5", "6", "7", "8", "9"}

DigitVal(ch) ==
    CASE ch = "0" -> 0 [] ch = "1" -> 1 [] ch = "2" -> 2 [] ch = "3" -> 3
      [] ch = "4" -> 4 [] ch = "5" -> 5 [] ch = "6" -> 6 [] ch = "7" -> 7
      [] ch = "8" -> 8 [] ch = "9" -> 9

DigitChar(n) ==
    CASE n = 0 -> "0" [] n = 1 -> "1" [] n = 2 -> "2" [] n = 3 -> "3"
      [] n = 4 -> "4" [] n = 5 -> "5" [] n = 6 -> "6" [] n = 7 -> "7"
      [] n = 8 -> "8" [] n = 9 -> "9"

\* str.replace(ch, '')
RemoveChar(cs, ch) == SelectSeq(cs, LAMBDA x : x # ch)

RECURSIVE LStrip(_)
LStrip(cs) ==
    IF cs # <<>> /\ Head(cs) = " " THEN LStrip(Tail(cs)) ELSE cs

RECURSIVE RStrip(_)
RStrip(cs) ==
    IF cs # <<>> /\ cs[Len(cs)] = " "
    THEN RStrip(SubSeq(cs, 1, Len(cs) - 1)) ELSE cs

\* str.strip()
Strip(cs) == RStrip(LStrip(cs))

LowerChar(ch) ==
    CASE ch = "A" -> "a" [] ch = "B" -> "b" [] ch = "C" -> "c"
      [] ch = "D" -> "d" [] ch = "E" -> "e" [] ch = "I" -> "i"
      [] ch = "M" -> "m" [] ch = "N" -> "n" [] ch = "O" -> "o"
      [] ch = "P" -> "p" [] ch = "R" -> "r" [] ch = "T" -> "t"
      [] OTHER -> ch

\* str.lower(), over the letters the inputs use
Lower(cs) == [i \in 1..Len(cs) |-> LowerChar(cs[i])]

RECURSIVE Pow10(_)
Pow10(n) == IF n = 0 THEN 1 ELSE 10 * Pow10(n - 1)

\* the number written by a sequence of digits (0 for the empty sequence)
RECURSIVE DigitsValue(_)
DigitsValue(ds) ==
    IF ds = <<>> THEN 0
    ELSE 10 * DigitsValue(SubSeq(ds, 1, Len(ds) - 1)) + DigitVal(ds[Len(ds)])

\* the digits of a natural number
RECURSIVE NatToChars(_)
NatToChars(n) ==
    IF n < 10 THEN <<DigitChar(n)>>
    ELSE NatToChars(n \div 10) \o <<DigitChar(n % 10)>>

\* str(n) for an int
IntToChars(n) == IF n < 0 THEN <<"-">> \o NatToChars(-n) ELSE NatToChars(n)

\* n written with exactly w digits, zero-padded on the left
RECURSIVE PadDigits(_, _)
PadDigits(n, w) ==
    IF w = 0 THEN <<>>
    ELSE PadDigits(n \div 10, w - 1) \o <<DigitChar(n % 10)>>

\* repr of a float c * 10^-e (e >= 1; the inputs stay in the range where
\* Python prints positional notation)
FloatToChars(c, e) ==
    LET a == IF c < 0 THEN -c ELSE c
    IN  (IF c < 0 THEN <<"-">> ELSE <<>>)
          \o NatToChars(a \div Pow10(e)) \o <<".">> \o PadDigits(a % Pow10(e), e)

\* str(v).  The text of a mapping or list is abbreviated to its brackets:
\* every parser of the model rejects it at the first character.
StrOf(v) ==
    CASE v.t = "str" -> v
      [] v.t = "int" -> PyText(IntToChars(v.c))
      [] v.t = "float" -> PyText(FloatToChars(v.c, v.e))
      [] v.t = "none" -> PyText(<<"N", "o", "n", "e">>)
      [] v.t = "dict" -> PyText(<<"{", "}">>)
      [] v.t = "list" -> PyText(<<"[", "]">>)
      [] v.t = "bool" -> PyText(IF v.b THEN <<"T", "r", "u", "e">>
                                       ELSE <<"F", "a", "l", "s", "e">>)

(***************************************************************************)
(* decimal.Decimal                                                         *)
(***************************************************************************)
\* Decimal(text): optional surrounding blanks, optional sign, digits with at
\* most one point and at least one digit.  Anything else raises
\* decimal.InvalidOperation, an ArithmeticError.  (Exponents, underscores
\* and the special values are outside the alphabet of the inputs.)
ParseDecimal(cs) ==
    LET s    == Strip(cs)
        neg  == s # <<>> /\ Head(s) = "-"
        body == IF s # <<>> /\ Head(s) \in {"-", "+"} THEN Tail(s) ELSE s
        dots == {i \in 1..Len(body) : body[i] = "."}
        ds   == RemoveChar(body, ".")
        ok   == /\ ds # <<>>
                /\ Cardinality(dots) <= 1
                /\ \A i \in 1..Len(ds) : ds[i] \in Digits
        p    == IF dots = {} THEN Len(body) ELSE CHOOSE i \in dots : TRUE
        n    == DigitsValue(ds)
    IN  IF ~ok THEN Raise("InvalidOperation")
        ELSE PyDec(IF neg THEN -n ELSE n, Len(body) - p)

\* Decimal(str(v))
ToDecimal(v) ==
    LET s == StrOf(v)
    IN  IF IsText(s) THEN ParseDecimal(s.cs) ELSE Raise("InvalidOperation")

\* the sign of a - b for two exact decimals c * 10^-e
DecCmp(a, b) ==
    LET x == a.c * Pow10(b.e)
        y == b.c * Pow10(a.e)
    IN  IF x < y THEN -1 ELSE IF x > y THEN 1 ELSE 0

\* the sign of v - d for a number v (int, float or Decimal) and a Decimal d.
\* Python compares a float with a Decimal by the float's exact binary value.
NumCmp(v, d) ==
    LET e == IF v.t = "int" THEN 0 ELSE v.e
        k == DecCmp([c |-> v.c, e |-> e], d)
    IN  IF k = 0 /\ v.t = "float" THEN v.r ELSE k

\* abs(v - d) for a number v and a Decimal d; float - Decimal is a TypeError
AbsDiff(v, d) ==
    IF v.t = "float" THEN Raise("TypeError")
    ELSE LET ve == IF v.t = "int" THEN 0 ELSE v.e
             x  == v.c * Pow10(d.e) - d.c * Pow10(ve)
         IN  PyDec(IF x < 0 THEN -x ELSE x, ve + d.e)

\* Decimal('0.01')
Tolerance == PyDec(1, 2)

(***************************************************************************)
(* datetime.fromisoformat, restricted to calendar dates YYYY-MM-DD         *)
(***************************************************************************)
IsLeap(y) == (y % 4 = 0 /\ y % 100 # 0) \/ y % 400 = 0

DaysInMonth(y, m) ==
    IF m = 2 THEN (IF IsLeap(y) THEN 29 ELSE 28)
    ELSE IF m \in {4, 6, 9, 11} THEN 30 ELSE 31

\* datetime.fromisoformat(v): TypeError unless v is a str, ValueError unless
\* the text is a valid date.  The result [t |-> "date", y, m, d].
FromIsoFormat(v) ==
    IF ~IsStr(v) THEN Raise("TypeError")
    ELSE IF ~IsText(v) THEN Raise("ValueError")
    ELSE LET cs == v.cs
             shape == /\ Len(cs) = 10
                      /\ cs[5] = "-" /\ cs[8] = "-"
                      /\ \A i \in {1, 2, 3, 4, 6, 7, 9, 10} : cs[i] \in Digits
             y == DigitsValue(SubSeq(cs, 1, 4))
             m == DigitsValue(SubSeq(cs, 6, 7))
             d == DigitsValue(SubSeq(cs, 9, 10))
         IN  IF ~shape THEN Raise("ValueError")
             ELSE IF y < 1 \/ m < 1 \/ m > 12 \/ d < 1 \/ d > DaysInMonth(y, m)
                  THEN Raise("ValueError")
             ELSE [t |-> "date", y |-> y, m |-> m, d |-> d]

\* the sign of a - b for two dates
DateCmp(a, b) ==
    LET x == a.y * 10000 + a.m * 100 + a.d
        y == b.y * 10000 + b.m * 100 + b.d
    IN  IF x < y THEN -1 ELSE IF x > y THEN 1 ELSE 0

(***************************************************************************)
(* re.match, restricted to patterns made of literal characters, '.', and   *)
(* an optional final '$'; a pattern holding an unclosed '(' is the         *)
(* ill-formed pattern (re.error)                                           *)
(***************************************************************************)
RegexValid(p) ==
    Cardinality({i \in 1..Len(p) : p[i] = "("})
        = Cardinality({i \in 1..Len(p) : p[i] = ")"})

\* bool(re.match(p, s)), ignoring case when ci
RegexMatch(p, s, ci) ==
    LET anchored == p # <<>> /\ p[Len(p)] = "$"
        q  == IF anchored THEN SubSeq(p, 1, Len(p) - 1) ELSE p
        pp == IF ci THEN Lower(q) ELSE q
        ss == IF ci THEN Lower(s) ELSE s
    IN  /\ Len(pp) <= Len(ss)
        /\ \A i \in 1..Len(pp) : pp[i] = "." \/ pp[i] = ss[i]
        /\ anchored => Len(pp) = Len(ss)

\* Python truth value of a value
Truthy(v) ==
    CASE v.t = "none" -> FALSE
      [] v.t = "bool" -> v.b
      [] v.t = "int" -> v.c # 0
      [] v.t = "float" -> v.c # 0
      [] v.t = "str" -> IF IsText(v) THEN v.cs # <<>> ELSE v.s # ""
      [] v.t = "dict" -> DOMAIN v.d # {}
      [] v.t = "list" -> v.l # <<>>
      [] OTHER -> TRUE

(***************************************************************************)
(* The validators.  Each returns PyBool(..) or the exception it lets out.  *)
(***************************************************************************)
\* _validate_numeric: conversion failures (ValueError, TypeError,
\* ArithmeticError) are caught and give False; parameters.get on a
\* non-mapping is an AttributeError, which is not caught here.
validate_numeric(value, parameters) ==
    LET v1 == IF IsText(value) THEN PyText(RemoveChar(value.cs, ",")) ELSE value
        v2 == IF v1.t \in {"int", "float", "dec"} THEN v1 ELSE ToDecimal(v1)
        data_type == Get(parameters, "data_type", PyStr("decimal"))
        lo == ToDecimal(parameters.d["min_value"])
        hi == ToDecimal(parameters.d["max_value"])
        expected == ToDecimal(parameters.d["expected_value"])
        diff == AbsDiff(v2, expected)
    IN  IF IsRaise(v2) THEN PyBool(FALSE)
        ELSE IF IsRaise(data_type) THEN data_type
        ELSE IF data_type # PyStr("decimal") THEN PyBool(TRUE)
        ELSE IF HasKey(parameters, "min_value") /\ IsRaise(lo) THEN PyBool(FALSE)
        ELSE IF HasKey(parameters, "min_value") /\ NumCmp(v2, lo) < 0
             THEN PyBool(FALSE)
        ELSE IF HasKey(parameters, "max_value") /\ IsRaise(hi) THEN PyBool(FALSE)
        ELSE IF HasKey(parameters, "max_value") /\ NumCmp(v2, hi) > 0
             THEN PyBool(FALSE)
        ELSE IF HasKey(parameters, "expected_value")
             THEN (IF IsRaise(expected) \/ IsRaise(diff) THEN PyBool(FALSE)
                   ELSE PyBool(DecCmp(diff, Tolerance) < 0))
        ELSE PyBool(TRUE)

\* _validate_regex: re.error and TypeError are caught and give False
validate_regex(value, parameters) ==
    LET v == IF IsStr(value) THEN value ELSE StrOf(value)
        pattern == Get(parameters, "pattern", PyText(<<>>))
        case_sensitive == Get(parameters, "case_sensitive", PyBool(TRUE))
        ci == ~Truthy(case_sensitive)
    IN  IF IsRaise(pattern) THEN pattern
        ELSE IF ~ci /\ ~IsStr(pattern) THEN PyBool(FALSE)
        ELSE LET p == IF IsText(pattern) THEN pattern.cs
                      ELSE StrOf(pattern).cs
             IN  IF ~RegexValid(p) THEN PyBool(FALSE)
                 ELSE PyBool(RegexMatch(p, v.cs, ci))

\* _validate_date_comparison: ValueError and TypeError are caught and give
\* False.  comparison_date is parsed before the comparison type is looked at.
validate_date_comparison(value, parameters) ==
    LET v == IF IsStr(value) THEN value ELSE StrOf(value)
        date_value == FromIsoFormat(v)
        comparison_type == Get(parameters, "comparison_type", PyStr("equals"))
        comparison_date ==
            FromIsoFormat(Get(parameters, "comparison_date", PyText(<<>>)))
        start_date == FromIsoFormat(Get(parameters, "start_date", PyText(<<>>)))
        end_date == FromIsoFormat(Get(parameters, "end_date", PyText(<<>>)))
    IN  IF IsRaise(date_value) THEN PyBool(FALSE)
        ELSE IF IsRaise(comparison_type) THEN comparison_type
        ELSE IF IsRaise(comparison_date) THEN PyBool(FALSE)
        ELSE IF comparison_type = PyStr("equals")
             THEN PyBool(DateCmp(date_value, comparison_date) = 0)
        ELSE IF comparison_type = PyStr("before")
             THEN PyBool(DateCmp(date_value, comparison_date) < 0)
        ELSE IF comparison_type = PyStr("after")
             THEN PyBool(DateCmp(date_value, comparison_date) > 0)
        ELSE IF comparison_type = PyStr("between")
             THEN (IF IsRaise(start_date) \/ IsRaise(end_date) THEN PyBool(FALSE)
                   ELSE PyBool(/\ DateCmp(start_date, date_value) <= 0
                               /\ DateCmp(date_value, end_date) <= 0))
        ELSE PyBool(FALSE)

(***************************************************************************)
(* Outcomes                                                                *)
(***************************************************************************)
\* an f-string: its template and the values substituted into it
Msg(fmt, arg) == [t |-> "str", fmt |-> fmt, arg |-> arg]

\* key in d for an arbitrary key value: unhashable keys raise, a key that
\* is not a str is never among the (str) keys
KeyIn(k, d) ==
    IF k.t \in {"dict", "list"} THEN Raise("TypeError")
    ELSE PyBool(k.t = "str" /\ "s" \in DOMAIN k /\ HasKey(d, k.s))

\* the dict literal {'rule_id': rule['rule_id'], 'name': rule['name'],
\* 'status': .., 'message': .., 'severity': rule['severity'],
\* 'timestamp': datetime.now().isoformat()}; KeyError when the rule lacks
\* one of the three keys
Outcome(rule, status, message, now) ==
    IF ~({"rule_id", "name", "severity"} \subseteq DOMAIN rule.d)
    THEN Raise("KeyError")
    ELSE [rule_id |-> rule.d["rule_id"], name |-> rule.d["name"],
          status |-> status, message |-> message,
          severity |-> rule.d["severity"], timestamp |-> now]

\* the dispatch of _validate_rule on validation.type
Dispatch(validation_type, value, parameters) ==
    IF validation_type = PyStr("numeric")
    THEN validate_numeric(value, parameters)
    ELSE IF validation_type = PyStr("regex")
    THEN validate_regex(value, parameters)
    ELSE IF validation_type = PyStr("date_comparison")
    THEN validate_date_comparison(value, parameters)
    ELSE [t |-> "unknown"]

\* _validate_rule(rule, document_data) at clock reading now: an outcome, or
\* the exception that escapes it
validate_rule(rule, document_data, now) ==
    LET field == Get(rule, "field", PyNone)
        validation == Get(rule, "validation", EmptyDict)
        validation_type == Get(validation, "type", PyNone)
        present == KeyIn(field, document_data)
        value == document_data.d[field.s]
        parameters == Get(validation, "parameters", EmptyDict)
        error_message ==
            Get(validation, "error_message", PyStr("Validation failed"))
        is_valid == Dispatch(validation_type, value, parameters)
    IN  IF IsRaise(validation_type) THEN validation_type
        ELSE IF IsRaise(present) THEN present
        ELSE IF ~present.b
        THEN Outcome(rule, "failed",
                     Msg("Field '{}' not found in document", field), now)
        ELSE IF is_valid.t = "unknown"
        THEN Outcome(rule, "error",
                     Msg("Unknown validation type: {}", validation_type), now)
        ELSE IF IsRaise(is_valid)
        THEN Outcome(rule, "error",
                     Msg("Validation error: {}", PyStr(is_valid.exc)), now)
        ELSE Outcome(rule, IF is_valid.b THEN "passed" ELSE "failed",
                     IF is_valid.b THEN PyNone ELSE error_message, now)

(***************************************************************************)
(* Cross-document consistency                                              *)
(***************************************************************************)
\* value.strip().lower() for a str, the value itself otherwise.  (A str
\* whose characters are not modelled is taken as already normalised.)
Normalize(v) == IF IsText(v) THEN PyText(Lower(Strip(v.cs))) ELSE v

\* d.get(k) for an arbitrary key value
GetKey(d, k) ==
    LET present == KeyIn(k, d)
    IN  IF IsRaise(present) THEN present
        ELSE IF present.b THEN d.d[k.s] ELSE PyNone

sPending == PyText(<<"p", "e", "n", "d", "i", "n", "g">>)

sProcessed == PyText(<<"p", "r", "o", "c", "e", "s", "s", "e", "d">>)

\* the entry validate_documents appends to processed_docs
ProcessedEntry(document_type, document_data) ==
    PyDict([k \in {"document_type", "document_data", "status"} |->
              CASE k = "document_type" -> document_type
                [] k = "document_data" -> document_data
                [] k = "status" -> sProcessed])

\* the normalised values doc.get(field) of the processed documents that are
\* not pending and have one, in order
RECURSIVE MatchingValues(_, _)
MatchingValues(processed, field) ==
    IF processed = <<>> THEN <<>>
    ELSE LET doc == Head(processed)
             doc_value == GetKey(doc, field)
             rest == MatchingValues(Tail(processed), field)
         IN  IF Get(doc, "status", PyNone) = sPending \/ doc_value = PyNone
             THEN rest
             ELSE <<Normalize(doc_value)>> \o rest

\* _convert_to_decimal: Decimal(str(value)) after removing separators; the
\* InvalidOperation of a non-numeric text is not a ValueError and escapes
convert_to_decimal(value) ==
    ToDecimal(IF IsText(value) THEN PyText(RemoveChar(value.cs, ",")) ELSE value)

\* abs(a - b) > tol for Decimals
DiffersBy(a, b, tol) ==
    LET x == a.c * Pow10(b.e) - b.c * Pow10(a.e)
    IN  DecCmp(PyDec(IF x < 0 THEN -x ELSE x, a.e + b.e), tol) > 0

\* _validate_cross_document_consistency: [valid, message]; every exception
\* is caught and reported as invalid
validate_cross_document_consistency(rule, current_doc, processed) ==
    LET field == Index(rule, "field")
        validation == Index(rule, "validation")
        validation_type == Get(validation, "type", PyStr("exact_match"))
        raw == GetKey(current_doc, field)
        current_value == Normalize(raw)
        matching == MatchingValues(processed, field)
        failure(e) == [valid |-> FALSE,
                       message |-> Msg("Error in cross-document validation: {}",
                                       PyStr(e))]
        ok == [valid |-> TRUE, message |-> PyText(<<>>)]
        current_decimal == convert_to_decimal(current_value)
        tolerance == ToDecimal(Get(validation, "tolerance", PyFloat(1, 2, 1)))
        decimals == [i \in 1..Len(matching) |-> convert_to_decimal(matching[i])]
    IN  IF IsRaise(field) THEN failure(field.exc)
        ELSE IF IsRaise(validation) THEN failure(validation.exc)
        ELSE IF IsRaise(validation_type) THEN failure(validation_type.exc)
        ELSE IF IsRaise(raw) THEN failure(raw.exc)
        ELSE IF raw = PyNone
        THEN [valid |-> FALSE,
              message |-> Msg("Field '{}' not found in current document", field)]
        ELSE IF matching = <<>> THEN ok
        ELSE IF validation_type = PyStr("exact_match")
        THEN (IF \E i \in 1..Len(matching) : matching[i] # current_value
              THEN [valid |-> FALSE,
                    message |-> Msg("Value '{}' does not match previous document value",
                                    raw)]
              ELSE ok)
        ELSE IF validation_type = PyStr("numeric_consistency")
        THEN (IF IsRaise(current_decimal) THEN failure(current_decimal.exc)
              ELSE IF IsRaise(tolerance) THEN failure(tolerance.exc)
              ELSE LET bad == {i \in 1..Len(matching) :
                                 \/ IsRaise(decimals[i])
                                 \/ DiffersBy(current_decimal, decimals[i],
                                              tolerance)}
                       first == CHOOSE i \in bad : \A j \in bad : i <= j
                   IN  IF bad = {} THEN ok
                       ELSE IF IsRaise(decimals[first])
                       THEN failure("InvalidOperation")
                       ELSE [valid |-> FALSE,
                             message |-> Msg("Value '{}' differs from previous document value",
                                             current_value)])
        ELSE IF validation_type = PyStr("date_consistency")
        THEN failure("AttributeError")  \* self._parse_date does not exist
        ELSE ok

(***************************************************************************)
(* Summaries                                                               *)
(***************************************************************************)
\* sum(1 for r in results if P(r))
CountIf(results, P(_)) == Cardinality({i \in 1..Len(results) : P(results[i])})

\* get_validation_summary counting every outcome of high severity, failed
\* or not, as a high-severity failure
get_validation_summary_any_status(validation_results, now) ==
    [total_rules |-> Len(validation_results),
     passed |-> CountIf(validation_results, LAMBDA r : r.status = "passed"),
     failed |-> CountIf(validation_results, LAMBDA r : r.status = "failed"),
     errors |-> CountIf(validation_results, LAMBDA r : r.status = "error"),
     high_severity_failures |->
         CountIf(validation_results, LAMBDA r : r.severity = PyStr("high")),
     timestamp |-> now]

\* get_validation_summary(validation_results) at clock reading now
get_validation_summary(validation_results, now) ==
    [total_rules |-> Len(validation_results),
     passed |-> CountIf(validation_results, LAMBDA r : r.status = "passed"),
     failed |-> CountIf(validation_results, LAMBDA r : r.status = "failed"),
     errors |-> CountIf(validation_results, LAMBDA r : r.status = "error"),
     high_severity_failures |->
         CountIf(validation_results,
                 LAMBDA r : r.status = "failed" /\ r.severity = PyStr("high")),
     timestamp |-> now]

\* sum(ns) and sum(f(x) for x in seq)
RECURSIVE Sum(_)
Sum(ns) == IF ns = <<>> THEN 0 ELSE Head(ns) + Sum(Tail(ns))

SumOver(seq, f(_)) == Sum([i \in 1..Len(seq) |-> f(seq[i])])

\* _get_overall_summary with total_errors summed over the wrong field
get_overall_summary_errors_from_failed(results, now) ==
    [total_documents |-> Len(results),
     total_rules_checked |->
         SumOver(results, LAMBDA doc : Len(doc.validation_results)),
     total_passed |-> SumOver(results, LAMBDA doc : doc.summary.passed),
     total_failed |-> SumOver(results, LAMBDA doc : doc.summary.failed),
     total_errors |-> SumOver(results, LAMBDA doc : doc.summary.failed),
     total_high_severity_failures |->
         SumOver(results, LAMBDA doc : doc.summary.high_severity_failures),
     timestamp |-> now]

\* _get_overall_summary(all_results) at clock reading now
get_overall_summary(results, now) ==
    [total_documents |-> Len(results),
     total_rules_checked |->
         SumOver(results, LAMBDA doc : Len(doc.validation_results)),
     total_passed |-> SumOver(results, LAMBDA doc : doc.summary.passed),
     total_failed |-> SumOver(results, LAMBDA doc : doc.summary.failed),
     total_errors |-> SumOver(results, LAMBDA doc : doc.summary.errors),
     total_high_severity_failures |->
         SumOver(results, LAMBDA doc : doc.summary.high_severity_failures),
     timestamp |-> now]

(***************************************************************************)
(* The steps of validate_documents                                         *)
(***************************************************************************)
\* the dict literal that builds document_data: ** of a non-mapping is a
\* TypeError, .get on a vendor_info that is not a mapping an AttributeError;
\* the three vendor keys come last and win over extracted fields of the
\* same name
ResolveFields(doc) ==
    LET extracted == Get(doc, "extracted_fields", EmptyDict)
        vendor_info == Get(doc, "vendor_info", EmptyDict)
        vendor_name == Get(vendor_info, "name", PyNone)
        vendor_address == Get(vendor_info, "address", EmptyDict)
        vendor_contact == Get(vendor_info, "contact", EmptyDict)
    IN  IF extracted.t # "dict" THEN Raise("TypeError")
        ELSE IF IsRaise(vendor_name) THEN vendor_name
        ELSE PyDict([k \in DOMAIN extracted.d
                            \cup {"vendor_name", "vendor_address", "vendor_contact"} |->
                       CASE k = "vendor_name" -> vendor_name
                         [] k = "vendor_address" -> vendor_address
                         [] k = "vendor_contact" -> vendor_contact
                         [] OTHER -> extracted.d[k]])

\* document_type in r.get('applicable_documents', [])
AppliesTo(r, document_type) ==
    LET docs == Get(r, "applicable_documents", PyList(<<>>))
    IN  \E i \in 1..Len(docs.l) : docs.l[i] = document_type

\* [r for r in self.rules.get('rules', []) if document_type in ...]
ApplicableRules(store, document_type) ==
    SelectSeq(store, LAMBDA r : AppliesTo(r, document_type))

\* one pass of the loop body over a rule: the outcome appended to
\* validation_results, or the exception that leaves validate_documents
RuleResult(rule, data, processed, now) ==
    LET vtype == Get(Get(rule, "validation", EmptyDict), "type", PyNone)
        cross == validate_cross_document_consistency(rule, data, processed)
    IN  IF IsRaise(vtype) THEN vtype
        ELSE IF vtype = PyStr("cross_document_consistency")
        THEN Outcome(rule, IF cross.valid THEN "passed" ELSE "failed",
                     cross.message, now)
        ELSE validate_rule(rule, data, now)

(***************************************************************************)
(* Inputs: the rules a store may hold and the documents a batch may hold   *)
(***************************************************************************)
MaxRules == 2

MaxDocs == 2

MaxClock == 1

\* a rule with every key the validation code reads
Rule(rule_id, name, field, validation, severity, applicable) ==
    PyDict([k \in {"rule_id", "name", "field", "validation", "severity",
                   "applicable_documents"} |->
              CASE k = "rule_id" -> PyText(rule_id)
                [] k = "name" -> PyStr(name)
                [] k = "field" -> PyStr(field)
                [] k = "validation" -> validation
                [] k = "severity" -> PyStr(severity)
                [] k = "applicable_documents" ->
                       PyList([i \in 1..Len(applicable) |-> PyStr(applicable[i])])])

Validation(type, parameters, error_message) ==
    PyDict([k \in {"type", "parameters", "error_message"} |->
              CASE k = "type" -> PyStr(type)
                [] k = "parameters" -> parameters
                [] k = "error_message" -> PyStr(error_message)])

\* d without the key k
Without(d, k) == PyDict([x \in DOMAIN d.d \ {k} |-> d.d[x]])

\* total_amount within 0..1000, high severity, invoices only
rAmountRange ==
    Rule(<<"I", "N", "V", "-", "0", "0", "1">>, "Amount range", "total_amount",
         Validation("numeric",
                    PyDict("min_value" :> PyInt(0) @@ "max_value" :> PyInt(1000)),
                    "Amount out of range"),
         "high", <<"invoice">>)

\* the rule _create_default_rule returns (rule_generator.py, 166-185)
rDefault ==
    Rule(<<"G", "E", "N", "-", "0", "0", "1">>, "Default Rule", "unknown",
         Validation("custom", EmptyDict, "Failed to generate specific validation rule"),
         "medium", <<"invoice", "purchase_order", "goods_receipt">>)

\* an unrecognised validation type on a field the documents carry
rCustomAmount ==
    Rule(<<"G", "E", "N", "-", "0", "0", "2">>, "Custom amount", "total_amount",
         Validation("custom", EmptyDict, "Custom check failed"),
         "low", <<"invoice">>)

\* vendor_name must agree across the documents of a batch
rVendorCross ==
    Rule(<<"G", "E", "N", "-", "0", "0", "3">>, "Vendor consistency", "vendor_name",
         Validation("cross_document_consistency", EmptyDict, "Vendor differs"),
         "high", <<"invoice", "purchase_order">>)

\* a rule that lacks the optional key rule_id
rNoId ==
    Without(Rule(<<>>, "Number format", "invoice_number",
                 Validation("regex", PyDict("pattern" :> PyText(<<"I", "N", "V", "-">>)),
                            "Bad invoice number"),
                 "medium", <<"purchase_order">>),
            "rule_id")

\* a numeric rule whose parameters are null
rNullParams ==
    Rule(<<"I", "N", "V", "-", "0", "0", "2">>, "Amount present", "total_amount",
         Validation("numeric", PyNone, "Amount invalid"),
         "high", <<"invoice">>)

RulePool == {rAmountRange, rDefault, rCustomAmount, rVendorCross, rNoId,
             rNullParams}

Document(document_type, extracted, vendor_info) ==
    PyDict([k \in {"document_type", "extracted_fields", "vendor_info"} |->
              CASE k = "document_type" -> PyStr(document_type)
                [] k = "extracted_fields" -> extracted
                [] k = "vendor_info" -> vendor_info])

dInvoiceA ==
    Document("invoice",
             PyDict("total_amount" :> PyInt(100)
                      @@ "invoice_number" :> PyText(<<"I", "N", "V", "-", "7">>)),
             PyDict("name" :> PyText(<<"A", "c", "m", "e", " ", "C", "o", "r", "p">>)))

\* an invoice whose amount is not a number
dInvoiceB ==
    Document("invoice",
             PyDict("total_amount" :> PyText(<<"a", "b", "c">>)),
             PyDict("name" :> PyText(<<" ", "A", "C", "M", "E", " ", "C", "O", "R", "P">>)
                      @@ "address" :> PyDict("city" :> PyText(<<"R", "o", "m", "e">>))))

\* a purchase order without the key vendor_info
dOrder ==
    Without(Document("purchase_order",
                     PyDict("total_amount" :> PyText(<<"1", ",", "2", "0", "0", ".", "5", "0">>)
                              @@ "invoice_number" :> PyText(<<"P", "O", "-", "9">>)),
                     PyNone),
            "vendor_info")

\* a document without the key document_type
dUntyped ==
    Without(Document("", PyDict("total_amount" :> PyInt(5)),
                     PyDict("name" :> PyText(<<"A", "c", "m", "e", " ", "C", "o", "r", "p">>))),
            "document_type")

\* what doc_handler returns on failure (document_loader.py, 377-392)
dFailed ==
    PyDict("metadata" :> PyDict("success" :> PyBool(FALSE)
                                  @@ "error" :> PyStr("Error processing document"))
             @@ "matches" :> PyNone
             @@ Document("unknown", EmptyDict, PyNone).d)

DocPool == {dInvoiceA, dInvoiceB, dOrder, dUntyped, dFailed}

\* the sequences over S of length at most n
SeqsUpTo(S, n) == UNION {[1..k -> S] : k \in 0..n}

Stores == SeqsUpTo(RulePool, MaxRules)

Batches == SeqsUpTo(DocPool, MaxDocs)

(***************************************************************************)
(* State                                                                   *)
(***************************************************************************)
VARIABLES
    rules,              \* self.rules['rules'], loaded at construction
    clock,              \* what datetime.now() returns
    pc,                 \* where the program is: "idle", "loop", "rules", "done",
                        \* "raised", or after a step of another operation
    documents,          \* the argument of validate_documents
    idx,                \* enumerate(documents, 1): the current index
    document_data,      \* the resolved fields of the current document
    applicable_rules,   \* the rules selected for the current document
    ri,                 \* the position of the rule loop in applicable_rules
    validation_results, \* the outcomes of the current document
    processed_docs,     \* the documents processed so far in this call
    all_results,        \* the per-document results of this call
    result,             \* the value validate_documents returned, or None
    exc,                \* the exception that left validate_documents or that
                        \* clear_rules caught, or ""
    previous,           \* the value the preceding call on this batch returned
    arg,                \* the arguments of a function applied on its own
    ret,                \* what that function returned, or None
    header,             \* self.rules of the agent without its 'rules' entry
    file,               \* what json.load gives on compliance_rules.json
    schema              \* self.schema of the rule generator
                        \* (the last three are None where not followed)

vars == <<rules, clock, pc, documents, idx, document_data, applicable_rules,
          ri, validation_results, processed_docs, all_results, result, exc,
          previous, arg, ret, header, file, schema>>

storeVars == <<header, file, schema>>

loopVars == <<document_data, applicable_rules, ri, validation_results>>

fnVars == <<arg, ret>>

\* no validation in progress
Quiet ==
    /\ clock = 0
    /\ pc = "idle"
    /\ documents = <<>>
    /\ idx = 0
    /\ document_data = PyNone
    /\ applicable_rules = <<>>
    /\ ri = 0
    /\ validation_results = <<>>
    /\ processed_docs = <<>>
    /\ all_results = <<>>
    /\ result = PyNone
    /\ exc = ""
    /\ previous = PyNone

\* no validation in progress, and the rules file and the handles on it are
\* not followed
Idle ==
    /\ Quiet
    /\ header = PyNone
    /\ file = PyNone
    /\ schema = PyNone

\* the state after ComplianceAgent() has loaded a rules file
Init ==
    /\ rules \in Stores
    /\ clock = 0
    /\ pc = "idle"
    /\ documents = <<>>
    /\ idx = 0
    /\ document_data = PyNone
    /\ applicable_rules = <<>>
    /\ ri = 0
    /\ validation_results = <<>>
    /\ processed_docs = <<>>
    /\ all_results = <<>>
    /\ result = PyNone
    /\ exc = ""
    /\ previous = PyNone
    /\ arg = PyNone
    /\ ret = PyNone
    /\ header = PyNone
    /\ file = PyNone
    /\ schema = PyNone

\* entry of validate_documents with all_results kept from the call before
Enter_keep_results(docs) ==
    /\ documents' = docs
    /\ all_results' = all_results
    /\ processed_docs' = <<>>
    /\ idx' = 1
    /\ pc' = "loop"
    /\ result' = PyNone
    /\ exc' = ""
    /\ UNCHANGED <<rules, clock, loopVars, fnVars>>
    /\ UNCHANGED storeVars

\* entry of validate_documents(docs): lines 64-65
Enter(docs) ==
    /\ documents' = docs
    /\ all_results' = <<>>
    /\ processed_docs' = <<>>
    /\ idx' = 1
    /\ pc' = "loop"
    /\ result' = PyNone
    /\ exc' = ""
    /\ UNCHANGED <<rules, clock, loopVars, fnVars>>
    /\ UNCHANGED storeVars

\* the first call of validate_documents, on a batch of the documents of B
CallFrom(B) ==
    /\ pc = "idle"
    /\ \E docs \in B : Enter(docs)
    /\ UNCHANGED previous

Call == CallFrom(Batches)

DocType(doc) == Get(doc, "document_type", PyNone)

\* the loop left (break) at a document without a document_type
SkipDocument_break ==
    /\ pc = "loop"
    /\ idx <= Len(documents)
    /\ ~Truthy(DocType(documents[idx]))
    /\ idx' = Len(documents) + 1
    /\ UNCHANGED <<rules, clock, pc, documents, loopVars, processed_docs,
                   all_results, result, exc, previous, fnVars>>
    /\ UNCHANGED storeVars

\* lines 69-72: a document without a document_type is passed over
SkipDocument ==
    /\ pc = "loop"
    /\ idx <= Len(documents)
    /\ ~Truthy(DocType(documents[idx]))
    /\ idx' = idx + 1
    /\ UNCHANGED <<rules, clock, pc, documents, loopVars, processed_docs,
                   all_results, result, exc, previous, fnVars>>
    /\ UNCHANGED storeVars

\* the current document joins processed_docs before its rules are evaluated
BeginDocument_append_current ==
    /\ pc = "loop"
    /\ idx <= Len(documents)
    /\ Truthy(DocType(documents[idx]))
    /\ LET data == ResolveFields(documents[idx])
       IN  IF IsRaise(data)
           THEN /\ pc' = "raised"
                /\ exc' = data.exc
                /\ UNCHANGED <<loopVars, processed_docs>>
           ELSE /\ document_data' = data
                /\ applicable_rules' =
                       ApplicableRules(rules, DocType(documents[idx]))
                /\ ri' = 1
                /\ validation_results' = <<>>
                /\ pc' = "rules"
                /\ exc' = exc
                /\ processed_docs' =
                       Append(processed_docs,
                              ProcessedEntry(DocType(documents[idx]), data))
    /\ UNCHANGED <<rules, clock, documents, idx, all_results,
                   result, previous, fnVars>>
    /\ UNCHANGED storeVars

\* lines 76-87: resolve the fields and select the rules
BeginDocument ==
    /\ pc = "loop"
    /\ idx <= Len(documents)
    /\ Truthy(DocType(documents[idx]))
    /\ LET data == ResolveFields(documents[idx])
       IN  IF IsRaise(data)
           THEN /\ pc' = "raised"
                /\ exc' = data.exc
                /\ UNCHANGED loopVars
           ELSE /\ document_data' = data
                /\ applicable_rules' =
                       ApplicableRules(rules, DocType(documents[idx]))
                /\ ri' = 1
                /\ validation_results' = <<>>
                /\ pc' = "rules"
                /\ exc' = exc
    /\ UNCHANGED <<rules, clock, documents, idx, processed_docs, all_results,
                   result, previous, fnVars>>
    /\ UNCHANGED storeVars

\* lines 91-106: one iteration of the rule loop
ValidateRule ==
    /\ pc = "rules"
    /\ ri <= Len(applicable_rules)
    /\ \E r \in {RuleResult(applicable_rules[ri], document_data,
                           processed_docs, clock)} :
           IF IsRaise(r)
           THEN /\ pc' = "raised"
                /\ exc' = r.exc
                /\ UNCHANGED <<ri, validation_results>>
           ELSE /\ validation_results' = Append(validation_results, r)
                /\ ri' = ri + 1
                /\ UNCHANGED <<pc, exc>>
    /\ UNCHANGED <<rules, clock, documents, idx, document_data,
                   applicable_rules, processed_docs, all_results, result,
                   previous, fnVars>>
    /\ UNCHANGED storeVars

\* lines 108-123: the document joins processed_docs and all_results
FinishDocument ==
    /\ pc = "rules"
    /\ ri > Len(applicable_rules)
    /\ processed_docs' =
           Append(processed_docs,
                  ProcessedEntry(DocType(documents[idx]), document_data))
    /\ all_results' =
           Append(all_results,
                  [document_index |-> idx,
                   document_type |-> DocType(documents[idx]),
                   document_data |-> document_data,
                   validation_results |-> validation_results,
                   summary |-> get_validation_summary(validation_results, clock)])
    /\ idx' = idx + 1
    /\ pc' = "loop"
    /\ UNCHANGED <<rules, clock, documents, loopVars, result, exc, previous,
                   fnVars>>
    /\ UNCHANGED storeVars

\* the dict validate_documents returns (lines 128-132)
BatchResult(docs, results, now) ==
    [total_documents |-> Len(docs),
     document_results |-> results,
     overall_summary |-> get_overall_summary(results, now)]

\* the return of validate_documents with the store saved to the file first
Return_save ==
    /\ pc = "loop"
    /\ idx > Len(documents)
    /\ result' = BatchResult(documents, all_results, clock)
    /\ pc' = "done"
    /\ file' = PyDict(("rules" :> PyList(rules)) @@ header.d)
    /\ UNCHANGED <<rules, clock, documents, idx, loopVars, processed_docs,
                   all_results, exc, previous, fnVars>>
    /\ UNCHANGED <<header, schema>>

\* lines 125-132
Return ==
    /\ pc = "loop"
    /\ idx > Len(documents)
    /\ result' = BatchResult(documents, all_results, clock)
    /\ pc' = "done"
    /\ UNCHANGED <<rules, clock, documents, idx, loopVars, processed_docs,
                   all_results, exc, previous, fnVars>>
    /\ UNCHANGED storeVars

\* time passes between calls.  Every reading of datetime.now() within one
\* call is taken at the clock value the call started with.
Tick ==
    /\ pc \in {"idle", "done"}
    /\ clock < MaxClock
    /\ clock' = clock + 1
    /\ UNCHANGED <<rules, pc, documents, idx, loopVars, processed_docs,
                   all_results, result, exc, previous, fnVars>>
    /\ UNCHANGED storeVars

Next ==
    \/ Call
    \/ SkipDocument
    \/ BeginDocument
    \/ ValidateRule
    \/ FinishDocument
    \/ Return
    \/ Tick

Spec == Init /\ [][Next]_vars

(***************************************************************************)
(* The same batch validated twice                                          *)
(***************************************************************************)
RulePoolTwice == {rAmountRange, rDefault, rCustomAmount}

DocPoolTwice == {dInvoiceA, dInvoiceB, dUntyped}

InitTwice ==
    /\ Idle
    /\ rules \in SeqsUpTo(RulePoolTwice, MaxRules)
    /\ arg = PyNone
    /\ ret = PyNone

CallTwice == CallFrom(SeqsUpTo(DocPoolTwice, MaxDocs))

\* validate_documents called again with the same batch, the store unchanged;
\* previous keeps what the first call returned
Revalidate ==
    /\ pc = "done"
    /\ previous = PyNone
    /\ previous' = result
    /\ Enter(documents)

NextTwice ==
    \/ CallTwice
    \/ Revalidate
    \/ SkipDocument
    \/ BeginDocument
    \/ ValidateRule
    \/ FinishDocument
    \/ Return
    \/ Tick

SpecTwice == InitTwice /\ [][NextTwice]_vars


(***************************************************************************)
(* get_validation_summary applied to arbitrary outcome lists               *)
(***************************************************************************)
MaxOutcomes == 3

Statuses == {"passed", "failed", "error"}

Severities == {PyStr("high"), PyStr("medium"), PyStr("low")}

Outcomes ==
    [rule_id : {PyText(<<"I", "N", "V", "-", "0", "0", "1">>)},
     name : {PyStr("Amount range")},
     status : Statuses,
     message : {PyNone},
     severity : Severities,
     timestamp : {0}]

OutcomeLists == SeqsUpTo(Outcomes, MaxOutcomes)

InitSummary ==
    /\ Idle
    /\ rules = <<>>
    /\ arg \in OutcomeLists
    /\ ret = PyNone

Summarize ==
    /\ ret = PyNone
    /\ ret' = get_validation_summary(arg, clock)
    /\ UNCHANGED <<rules, clock, pc, documents, idx, loopVars, processed_docs,
                   all_results, result, exc, previous, arg>>
    /\ UNCHANGED storeVars

NextSummary == Summarize

SpecSummary == InitSummary /\ [][NextSummary]_vars

\* the number of outcomes of a list that have the given status
RECURSIVE NumWithStatus(_, _)
NumWithStatus(list, st) ==
    IF list = <<>> THEN 0
    ELSE (IF Head(list).status = st THEN 1 ELSE 0)
           + NumWithStatus(Tail(list), st)

\* the number of failed outcomes of high severity in a list
RECURSIVE NumHighFailed(_)
NumHighFailed(list) ==
    IF list = <<>> THEN 0
    ELSE (IF Head(list).status = "failed" /\ Head(list).severity = PyStr("high")
          THEN 1 ELSE 0)
           + NumHighFailed(Tail(list))

\* what C6 says of a summary s of the outcome list
SummaryCounts(s, list) ==
    /\ s.total_rules = Len(list)
    /\ s.passed = NumWithStatus(list, "passed")
    /\ s.failed = NumWithStatus(list, "failed")
    /\ s.errors = NumWithStatus(list, "error")
    /\ s.high_severity_failures = NumHighFailed(list)
    /\ s.passed + s.failed + s.errors = s.total_rules
    /\ s.high_severity_failures <= s.failed

\* C6: for every list of outcomes, get_validation_summary returns
\* total_rules = the number of outcomes, passed/failed/errors = the number of
\* outcomes with that status, and high_severity_failures = the number of
\* failed outcomes of high severity; so passed + failed + errors =
\* total_rules and high_severity_failures <= failed.
C6_SummaryCounts == ret # PyNone => SummaryCounts(ret, arg)

\* a summary of a list with a high-severity failure, a failure of lower
\* severity, and an outcome of high severity that did not fail
C6_Witness ==
    /\ ret # PyNone
    /\ ret.failed = 2
    /\ ret.high_severity_failures = 1
    /\ \E i \in 1..Len(arg) :
           arg[i].status = "error" /\ arg[i].severity = PyStr("high")

(***************************************************************************)
(* Properties of validate_documents                                        *)
(***************************************************************************)
\* the positions of the batch whose document has a document_type
Typed == {i \in 1..Len(documents) : Truthy(DocType(documents[i]))}

\* the rules of a store that list the document type, in store order
RECURSIVE RulesFor(_, _)
RulesFor(store, ty) ==
    IF store = <<>> THEN <<>>
    ELSE LET r == Head(store)
             listed == /\ HasKey(r, "applicable_documents")
                       /\ \E i \in 1..Len(r.d["applicable_documents"].l) :
                              r.d["applicable_documents"].l[i] = ty
         IN  (IF listed THEN <<r>> ELSE <<>>) \o RulesFor(Tail(store), ty)

\* the call is over, by a return or by an exception
Over == pc \in {"done", "raised"}

\* C1: validate_documents never raises, whatever the rule set and the batch
\* (rules lacking optional keys, malformed parameters, documents whose
\* extracted_fields or vendor_info are missing, null or mistyped): a rule
\* whose evaluation fails gets an 'error' outcome and the remaining rules and
\* documents are still processed.
C1_NeverRaises == pc # "raised"

\* the outcomes outs are one per rule of rs, in order, each with a status
\* of the three and the rule's rule_id
OnePerRule(outs, rs) ==
    /\ Len(outs) = Len(rs)
    /\ \A j \in 1..Len(outs) :
           /\ outs[j].status \in Statuses
           /\ HasKey(rs[j], "rule_id")
           /\ outs[j].rule_id = rs[j].d["rule_id"]

\* C2: for every document of a batch that has a document_type,
\* validate_documents produces exactly one outcome per rule whose
\* applicable_documents contains the type, in rule-store order, each with a
\* status among passed, failed, error and the rule's rule_id; other rules
\* contribute no outcome.
C2_OneOutcomePerApplicableRule ==
    Over =>
        \A i \in Typed :
            /\ result # PyNone
            /\ \E k \in 1..Len(result.document_results) :
                   /\ result.document_results[k].document_index = i
                   /\ OnePerRule(result.document_results[k].validation_results,
                                 RulesFor(rules, DocType(documents[i])))

\* the validation types of the design (section 4.3 of the specification)
RecognizedTypes ==
    {PyStr("numeric"), PyStr("regex"), PyStr("date_comparison"),
     PyStr("currency_consistency"), PyStr("cross_reference"),
     PyStr("line_item_calculation"), PyStr("address_validation"),
     PyStr("cross_document_consistency")}

Unrecognized(rule) ==
    Get(Get(rule, "validation", EmptyDict), "type", PyNone) \notin RecognizedTypes

\* C3: a rule whose validation.type is not a recognized type produces, for
\* every document it applies to, whatever fields the document has, one
\* outcome with status 'error' and message 'Unknown validation type: <type>'.
C3_UnknownTypeIsError ==
    pc = "rules" =>
        \A j \in 1..Len(validation_results) :
            Unrecognized(applicable_rules[j]) =>
                /\ validation_results[j].status = "error"
                /\ validation_results[j].message =
                       Msg("Unknown validation type: {}",
                           applicable_rules[j].d["validation"].d["type"])

\* C4: a document without a document_type has no entry in document_results,
\* is not counted in overall_summary.total_documents nor in the rule total,
\* and does not keep the documents after it from being validated: the call
\* never ends at such a document, and a call that returns has an entry for
\* every document that has a type.
C4_UntypedExcluded ==
    /\ \A k \in 1..Len(all_results) : all_results[k].document_index \in Typed
    /\ pc = "raised" => idx \in Typed
    /\ pc = "done" =>
           /\ \A k \in 1..Len(result.document_results) :
                  result.document_results[k].document_index \in Typed
           /\ \A i \in Typed :
                  \E k \in 1..Len(result.document_results) :
                      result.document_results[k].document_index = i
           /\ result.overall_summary.total_documents = Cardinality(Typed)
           /\ result.overall_summary.total_rules_checked =
                  Sum([i \in 1..Len(documents) |->
                         IF i \in Typed
                         THEN Len(RulesFor(rules, DocType(documents[i])))
                         ELSE 0])

\* a returned result for a batch whose first document has no type and whose
\* second document was validated against at least one rule
C4_Witness ==
    /\ pc = "done"
    /\ Len(documents) >= 2
    /\ 1 \notin Typed
    /\ \E k \in 1..Len(result.document_results) :
           /\ result.document_results[k].document_index = 2
           /\ result.document_results[k].validation_results # <<>>

\* C5: in every result, the top-level total_documents equals the number of
\* entries of document_results; documents skipped for a missing
\* document_type are not counted.
C5_TotalMatchesResults ==
    pc = "done" => result.total_documents = Len(result.document_results)

\* the sum of one summary field over per-document results
RECURSIVE Total(_, _)
Total(ds, f) ==
    IF ds = <<>> THEN 0 ELSE Head(ds).summary[f] + Total(Tail(ds), f)

\* C7: in every result, each of overall_summary's total_rules_checked,
\* total_passed, total_failed, total_errors, total_high_severity_failures
\* is the sum of the per-document summary field total_rules, passed, failed,
\* errors, high_severity_failures over document_results; so total_passed +
\* total_failed + total_errors = total_rules_checked.
C7_OverallIsSum ==
    pc = "done" =>
        LET o == result.overall_summary
            ds == result.document_results
        IN  /\ o.total_rules_checked = Total(ds, "total_rules")
            /\ o.total_passed = Total(ds, "passed")
            /\ o.total_failed = Total(ds, "failed")
            /\ o.total_errors = Total(ds, "errors")
            /\ o.total_high_severity_failures =
                   Total(ds, "high_severity_failures")
            /\ o.total_passed + o.total_failed + o.total_errors
                   = o.total_rules_checked

\* a result over two validated documents with passed, failed and error
\* outcomes among them
C7_Witness ==
    /\ pc = "done"
    /\ Len(result.document_results) = 2
    /\ result.overall_summary.total_passed >= 1
    /\ result.overall_summary.total_failed >= 1
    /\ result.overall_summary.total_errors >= 1
    /\ result.document_results[1].summary.errors >= 1
    /\ result.document_results[2].summary.errors >= 1

\* the result r with every timestamp field set to zero
WithoutTimestamps(r) ==
    [total_documents |-> r.total_documents,
     document_results |->
         [k \in 1..Len(r.document_results) |->
            LET d == r.document_results[k]
            IN  [d EXCEPT
                   !.validation_results =
                       [j \in 1..Len(d.validation_results) |->
                          [d.validation_results[j] EXCEPT !.timestamp = 0]],
                   !.summary = [d.summary EXCEPT !.timestamp = 0]]],
     overall_summary |-> [r.overall_summary EXCEPT !.timestamp = 0]]

\* the second call on the batch has returned
Revalidated == pc = "done" /\ previous # PyNone

\* C8 as stated: validating the same batch twice with an unchanged store
\* yields two results equal in every field.
C8_IdenticalResults == Revalidated => result = previous

\* C8 as amended: the two results are equal in every field other than the
\* timestamp fields of the outcomes, the summaries and the overall summary.
C8_IdenticalButTimestamps ==
    Revalidated => WithoutTimestamps(result) = WithoutTimestamps(previous)

\* two results of the same batch that hold outcomes and differ
C8_Witness ==
    /\ Revalidated
    /\ result # previous
    /\ \E k \in 1..Len(result.document_results) :
           result.document_results[k].validation_results # <<>>

(***************************************************************************)
(* A numeric rule applied to one field value                               *)
(***************************************************************************)
\* field values: ints, floats, numeric texts with and without thousands
\* separators, and values that are not numbers
NumericValues ==
    {PyInt(5), PyInt(10), PyInt(100), PyInt(1000),
     PyFloat(100009, 3, 1), PyFloat(10002, 2, -1), PyFloat(1000, 1, 0),
     PyFloat(1, 1, 1), PyFloat(995, 1, 0),
     PyText(<<"1", "0", "0", ".", "0", "0", "9">>), PyText(<<"1", "0", "0", ".", "0", "2">>), PyText(<<"1", ",", "0", "0", "0", ".", "0", "0", "9">>),
     PyText(<<" ", "1", "0", " ">>), PyText(<<"a", "b", "c">>), PyNone, EmptyDict}

MinValues == {PyInt(10)}

MaxValues == {PyInt(100), PyFloat(1, 1, 1)}

ExpectedValues == {PyFloat(1000, 1, 0), PyInt(1000)}

DataTypes == {PyStr("decimal"), PyStr("integer")}

\* the mappings with the given keys chosen among the optional parameters
ParamsWith(keys) ==
    {PyDict(f) :
        f \in {g \in [keys -> MinValues \cup MaxValues \cup ExpectedValues
                                  \cup DataTypes] :
                  /\ "min_value" \in keys => g["min_value"] \in MinValues
                  /\ "max_value" \in keys => g["max_value"] \in MaxValues
                  /\ "expected_value" \in keys =>
                         g["expected_value"] \in ExpectedValues
                  /\ "data_type" \in keys => g["data_type"] \in DataTypes}}

NumericParameters ==
    UNION {ParamsWith(keys) :
             keys \in SUBSET {"min_value", "max_value", "expected_value",
                              "data_type"}}

NumericRule(parameters) ==
    Rule(<<"I", "N", "V", "-", "0", "0", "1">>, "Amount check", "total_amount",
         Validation("numeric", parameters, "Amount check failed"),
         "high", <<"invoice">>)

InitNumeric ==
    /\ Idle
    /\ rules = <<>>
    /\ arg \in [value : NumericValues, parameters : NumericParameters]
    /\ ret = PyNone

\* _validate_rule on the rule and a document holding the value
EvaluateNumeric ==
    /\ ret = PyNone
    /\ ret' = validate_rule(NumericRule(arg.parameters),
                            PyDict("total_amount" :> arg.value), clock)
    /\ UNCHANGED <<rules, clock, pc, documents, idx, loopVars, processed_docs,
                   all_results, result, exc, previous, arg>>
    /\ UNCHANGED storeVars

NextNumeric == EvaluateNumeric

SpecNumeric == InitNumeric /\ [][NextNumeric]_vars

\* the decimal a field value stands for: an int, a float (by its repr), or
\* a numeric text without its thousands separators; an exception otherwise
Coerced(v) ==
    CASE v.t = "int" -> PyDec(v.c, 0)
      [] v.t = "float" -> PyDec(v.c, v.e)
      [] IsText(v) -> ParseDecimal(RemoveChar(v.cs, ","))
      [] OTHER -> Raise("InvalidOperation")

\* value < bound and value > bound for a parameter that is present
Below(v, params, key) ==
    HasKey(params, key) /\ DecCmp(Coerced(v), Coerced(params.d[key])) < 0

Above(v, params, key) ==
    HasKey(params, key) /\ DecCmp(Coerced(v), Coerced(params.d[key])) > 0

OutOfBounds(v, params) ==
    Below(v, params, "min_value") \/ Above(v, params, "max_value")

\* |value - expected_value| < 0.01
WithinTolerance(v, params) ==
    LET a == Coerced(v)
        b == Coerced(params.d["expected_value"])
        x == a.c * Pow10(b.e) - b.c * Pow10(a.e)
    IN  100 * (IF x < 0 THEN -x ELSE x) < Pow10(a.e + b.e)

Evaluated == ret # PyNone

\* C9: a numeric rule with expected_value, and no violated min/max bound,
\* passes iff |value - expected_value| < 0.01, for every representation of
\* the field value (int, float, numeric text with optional thousands
\* separators).
C9_ExpectedWithinTolerance ==
    (/\ Evaluated
     /\ HasKey(arg.parameters, "expected_value")
     /\ ~IsRaise(Coerced(arg.value))
     /\ ~OutOfBounds(arg.value, arg.parameters))
        => (ret.status = "passed" <=> WithinTolerance(arg.value, arg.parameters))

\* C10: a numeric rule yields 'failed' whenever the coerced value is
\* strictly below min_value or strictly above max_value, and a value equal
\* to a bound does not fail on that bound, for every data_type, present or
\* absent.
C10_BoundsEnforced ==
    (Evaluated /\ ~IsRaise(Coerced(arg.value))) =>
        /\ OutOfBounds(arg.value, arg.parameters) => ret.status = "failed"
        /\ (/\ ~OutOfBounds(arg.value, arg.parameters)
            /\ ~HasKey(arg.parameters, "expected_value"))
               => ret.status = "passed"

\* C11: a numeric rule applied to a field value that cannot be coerced to a
\* decimal (a non-numeric text, a mapping, null) yields status 'error'.
C11_NonCoercibleIsError ==
    (Evaluated /\ IsRaise(Coerced(arg.value))) => ret.status = "error"

(***************************************************************************)
(* A date_comparison rule applied to one field value                       *)
(***************************************************************************)
\* field values: dates inside, at the ends of, and outside the year 2024,
\* and values that are not dates
DateValues ==
    {PyText(<<"2", "0", "2", "4", "-", "0", "6", "-", "1", "5">>), PyText(<<"2", "0", "2", "4", "-", "0", "1", "-", "0", "1">>), PyText(<<"2", "0", "2", "4", "-", "1", "2", "-", "3", "1">>),
     PyText(<<"2", "0", "2", "3", "-", "1", "2", "-", "3", "1">>), PyText(<<"2", "0", "2", "5", "-", "0", "1", "-", "0", "1">>),
     PyText(<<"2", "0", "2", "4", "-", "0", "2", "-", "3", "0">>), PyText(<<"1", "5", "/", "0", "6", "/", "2", "0", "2", "4">>), PyNone, PyInt(2024)}

ComparisonTypes ==
    {PyStr("equals"), PyStr("before"), PyStr("after"), PyStr("between")}

ComparisonDates == {PyText(<<"2", "0", "2", "4", "-", "0", "6", "-", "1", "5">>), PyText(<<"s", "o", "o", "n">>)}

StartDates == {PyText(<<"2", "0", "2", "4", "-", "0", "1", "-", "0", "1">>)}

EndDates == {PyText(<<"2", "0", "2", "4", "-", "1", "2", "-", "3", "1">>)}

\* the mappings holding any of comparison_type, comparison_date, start_date
\* and end_date
DateParamsWith(keys) ==
    {PyDict(f) :
        f \in {g \in [keys -> ComparisonTypes \cup ComparisonDates
                                  \cup StartDates \cup EndDates] :
                  /\ "comparison_type" \in keys =>
                         g["comparison_type"] \in ComparisonTypes
                  /\ "comparison_date" \in keys =>
                         g["comparison_date"] \in ComparisonDates
                  /\ "start_date" \in keys => g["start_date"] \in StartDates
                  /\ "end_date" \in keys => g["end_date"] \in EndDates}}

DateParameters ==
    UNION {DateParamsWith(keys) :
             keys \in SUBSET {"comparison_type", "comparison_date",
                              "start_date", "end_date"}}

DateRule(parameters) ==
    Rule(<<"I", "N", "V", "-", "0", "0", "3">>, "Invoice date", "invoice_date",
         Validation("date_comparison", parameters, "Invoice date check failed"),
         "medium", <<"invoice">>)

InitDate ==
    /\ Idle
    /\ rules = <<>>
    /\ arg \in [value : DateValues, parameters : DateParameters]
    /\ ret = PyNone

\* _validate_rule on the rule and a document holding the value
EvaluateDate ==
    /\ ret = PyNone
    /\ ret' = validate_rule(DateRule(arg.parameters),
                            PyDict("invoice_date" :> arg.value), clock)
    /\ UNCHANGED <<rules, clock, pc, documents, idx, loopVars, processed_docs,
                   all_results, result, exc, previous, arg>>
    /\ UNCHANGED storeVars

NextDate == EvaluateDate

SpecDate == InitDate /\ [][NextDate]_vars

\* the date a field value stands for, or the exception of an unparseable one
DateOf(v) == FromIsoFormat(IF IsStr(v) THEN v ELSE StrOf(v))

\* the parameter is present and is a parseable date
HasDate(params, key) ==
    HasKey(params, key) /\ ~IsRaise(FromIsoFormat(params.d[key]))

\* start_date <= value <= end_date
Between(v, params) ==
    /\ ~IsRaise(DateOf(v))
    /\ DateCmp(FromIsoFormat(params.d["start_date"]), DateOf(v)) <= 0
    /\ DateCmp(DateOf(v), FromIsoFormat(params.d["end_date"])) <= 0

\* C12: a date_comparison rule of type 'between' with parseable start_date
\* and end_date passes iff start_date <= value <= end_date, both ends
\* inclusive, whatever other parameters are present or absent.
C12_BetweenInclusive ==
    (/\ Evaluated
     /\ Get(arg.parameters, "comparison_type", PyNone) = PyStr("between")
     /\ HasDate(arg.parameters, "start_date")
     /\ HasDate(arg.parameters, "end_date"))
        => (ret.status = "passed" <=> Between(arg.value, arg.parameters))

\* C13: a date_comparison rule applied to a field value that is not a
\* parseable ISO-8601 date yields status 'error'.
C13_UnparseableDateIsError ==
    (Evaluated /\ IsRaise(DateOf(arg.value))) => ret.status = "error"

(***************************************************************************)
(* Batches validated against a cross-document rule on vendor_name          *)
(***************************************************************************)
\* an invoice of another vendor
dInvoiceC ==
    Document("invoice",
             PyDict("total_amount" :> PyInt(250)),
             PyDict("name" :> PyText(<<"A", "c", "m", "e", " ", "I", "n", "c">>)))

RulePoolCross == {rVendorCross, rAmountRange}

DocPoolCross == {dInvoiceA, dInvoiceB, dInvoiceC, dOrder, dUntyped}

InitCross ==
    /\ Idle
    /\ rules \in SeqsUpTo(RulePoolCross, MaxRules)
    /\ arg = PyNone
    /\ ret = PyNone

CallCross == CallFrom(SeqsUpTo(DocPoolCross, MaxDocs))

NextCross ==
    \/ CallCross
    \/ SkipDocument
    \/ BeginDocument
    \/ ValidateRule
    \/ FinishDocument
    \/ Return
    \/ Tick

SpecCross == InitCross /\ [][NextCross]_vars

\* the rule is a cross-document consistency rule on vendor_name
IsVendorCross(rule) ==
    /\ Get(Get(rule, "validation", EmptyDict), "type", PyNone)
           = PyStr("cross_document_consistency")
    /\ Get(rule, "field", PyNone) = PyStr("vendor_name")

\* vendor_info.name of a document of the batch, without surrounding blanks
\* and in lower case; None when the document has none
VendorOf(doc) ==
    LET info == Get(doc, "vendor_info", EmptyDict)
    IN  IF info.t = "dict" THEN Normalize(Get(info, "name", PyNone))
        ELSE PyNone

\* the vendors of the validated documents before position i
EarlierVendors(i) ==
    {VendorOf(documents[k]) : k \in {n \in Typed : n < i}} \ {PyNone}

\* the outcomes so far of the current document for the vendor rule
VendorOutcomes ==
    {j \in 1..Len(validation_results) : IsVendorCross(applicable_rules[j])}

\* C14: with a cross_document_consistency rule (exact_match) on vendor_name,
\* a document whose vendor_name differs from every earlier document's only
\* by letter case or surrounding whitespace passes, and a document whose
\* normalized vendor_name differs from that of some earlier validated
\* document fails.
C14_VendorExactMatch ==
    (/\ pc = "rules"
     /\ VendorOf(documents[idx]) # PyNone
     /\ EarlierVendors(idx) # {})
        => \A j \in VendorOutcomes :
               /\ EarlierVendors(idx) = {VendorOf(documents[idx])}
                      => validation_results[j].status = "passed"
               /\ EarlierVendors(idx) # {VendorOf(documents[idx])}
                      => validation_results[j].status = "failed"

\* C15: the first validated document of a batch gets status 'passed' for
\* every cross_document_consistency rule that applies to it, whatever its
\* field values are, also when the rule's field is absent or null in it.
C15_FirstDocumentPasses ==
    (pc = "rules" /\ \A n \in Typed : idx <= n)
        => \A j \in VendorOutcomes : validation_results[j].status = "passed"

\* what the entries of the processed-documents list must be once the first
\* n documents of the batch are behind: one per document that has a type,
\* in input order, carrying its type and its resolved data
RECURSIVE PriorEntries(_, _)
PriorEntries(docs, n) ==
    IF n = 0 THEN <<>>
    ELSE IF ~Truthy(DocType(docs[n])) THEN PriorEntries(docs, n - 1)
    ELSE Append(PriorEntries(docs, n - 1),
                ProcessedEntry(DocType(docs[n]), ResolveFields(docs[n])))

\* C16: whenever the cross-document validator is invoked for the document
\* at input position i, the processed-documents list holds exactly the
\* resolved data of the validated documents at positions < i, in input
\* order: never the current document, never a later one, never a document
\* skipped for a missing document_type; the current document is appended
\* only after all of its rules have been evaluated.
C16_ProcessedSoFar ==
    pc # "idle" => processed_docs = PriorEntries(documents, idx - 1)

\* the cross-document validator is about to be invoked for the second
\* document of a batch whose first document was validated
C16_Witness ==
    /\ pc = "rules"
    /\ ri <= Len(applicable_rules)
    /\ IsVendorCross(applicable_rules[ri])
    /\ idx = 2
    /\ Len(processed_docs) = 1
    /\ processed_docs[1].d["document_data"] = ResolveFields(documents[1])

(***************************************************************************)
(* A line_item_calculation rule applied to one document                    *)
(***************************************************************************)
\* a line item {quantity, unit_price, total}
Item(quantity, unit_price, total) ==
    PyDict([k \in {"quantity", "unit_price", "total"} |->
              CASE k = "quantity" -> PyInt(quantity)
                [] k = "unit_price" -> PyInt(unit_price)
                [] k = "total" -> PyInt(total)])

\* 2 x 50 = 100, 1 x 30 = 30, 3 x 10 = 30, and an item whose total is off
ItemPool == {Item(2, 50, 100), Item(1, 30, 30), Item(3, 10, 30), Item(1, 30, 31)}

MaxItems == 2

TotalAmounts == {PyInt(100), PyInt(130), PyInt(131)}

LineItemRule(field) ==
    Rule(<<"I", "N", "V", "-", "0", "0", "4">>, "Line item totals", field,
         Validation("line_item_calculation", EmptyDict, "Line items do not add up"),
         "high", <<"invoice">>)

InitLineItems ==
    /\ Idle
    /\ rules = <<>>
    /\ arg \in [line_items : SeqsUpTo(ItemPool, MaxItems),
                total_amount : TotalAmounts,
                field : {"line_items", "total_amount"}]
    /\ ret = PyNone

\* _validate_rule on the rule and a document holding the line items and the
\* total
EvaluateLineItems ==
    /\ ret = PyNone
    /\ ret' = validate_rule(LineItemRule(arg.field),
                            PyDict("line_items" :> PyList(arg.line_items)
                                     @@ "total_amount" :> arg.total_amount),
                            clock)
    /\ UNCHANGED <<rules, clock, pc, documents, idx, loopVars, processed_docs,
                   all_results, result, exc, previous, arg>>
    /\ UNCHANGED storeVars

NextLineItems == EvaluateLineItems

SpecLineItems == InitLineItems /\ [][NextLineItems]_vars

\* every item's total equals quantity x unit_price
ItemsAddUp(items) ==
    \A i \in 1..Len(items) :
        items[i].d["quantity"].c * items[i].d["unit_price"].c
            = items[i].d["total"].c

\* the sum of the computed item totals
ComputedTotal(items) ==
    Sum([i \in 1..Len(items) |->
           items[i].d["quantity"].c * items[i].d["unit_price"].c])

\* C17: a line_item_calculation rule passes for a document whose line items
\* each satisfy quantity x unit_price = total and whose total_amount equals
\* the sum of the computed item totals (2x50 and 1x30 with total_amount
\* 130), and fails when total_amount differs from that sum (131).  All
\* amounts are whole numbers here, so "within 0.01" is equality.
C17_LineItemArithmetic ==
    (Evaluated /\ arg.line_items # <<>> /\ ItemsAddUp(arg.line_items)) =>
        /\ arg.total_amount.c = ComputedTotal(arg.line_items)
               => ret.status = "passed"
        /\ arg.total_amount.c # ComputedTotal(arg.line_items)
               => ret.status = "failed" /\ ret.message # PyNone

(***************************************************************************)
(* ComplianceRuleGenerator: rule IDs                                       *)
(***************************************************************************)
\* str.startswith
StartsWith(cs, p) == Len(p) <= Len(cs) /\ SubSeq(cs, 1, Len(p)) = p

\* str.split('-')
RECURSIVE SplitDash(_)
SplitDash(cs) ==
    LET dashes == {i \in 1..Len(cs) : cs[i] = "-"}
        p == CHOOSE i \in dashes : \A j \in dashes : i <= j
    IN  IF dashes = {} THEN <<cs>>
        ELSE <<SubSeq(cs, 1, p - 1)>> \o SplitDash(SubSeq(cs, p + 1, Len(cs)))

\* int(text): surrounding blanks and one sign are allowed around a nonempty
\* run of digits; anything else is a ValueError.  (Underscores between
\* digits are outside the alphabet of the inputs.)
ParseInt(cs) ==
    LET s == Strip(cs)
        signed == s # <<>> /\ Head(s) \in {"+", "-"}
        body == IF signed THEN Tail(s) ELSE s
        n == DigitsValue(body)
    IN  IF body = <<>> \/ \E i \in 1..Len(body) : body[i] \notin Digits
        THEN Raise("ValueError")
        ELSE PyInt(IF signed /\ Head(s) = "-" THEN -n ELSE n)

\* f"{n:03d}" for n >= 0
Format03d(n) == IF n < 1000 THEN PadDigits(n, 3) ELSE NatToChars(n)

\* the prefix table of _generate_rule_id with its default
Prefix(category) ==
    CASE category = PyStr("invoice") -> <<"I", "N", "V">>
      [] category = PyStr("purchase_order") -> <<"P", "O">>
      [] category = PyStr("goods_receipt") -> <<"G", "R", "N">>
      [] OTHER -> <<"G", "E", "N">>

\* the loop of lines 67-74 over the rest of existing_rules: the final
\* max_num, or the exception that leaves the loop (rule_id not a str)
RECURSIVE MaxNum(_, _, _)
MaxNum(existing, prefix, max_num) ==
    IF existing = <<>> THEN PyInt(max_num)
    ELSE LET rule == Head(existing)
             rest == Tail(existing)
             id == rule.d["rule_id"]
             parts == SplitDash(id.cs)
             num == ParseInt(parts[2])
         IN  IF rule.t # "dict" \/ ~HasKey(rule, "rule_id")
             THEN MaxNum(rest, prefix, max_num)
             ELSE IF ~IsStr(id) THEN Raise("AttributeError")
             ELSE IF ~StartsWith(id.cs, prefix)
             THEN MaxNum(rest, prefix, max_num)
             ELSE IF Len(parts) < 2 \/ IsRaise(num)
             THEN MaxNum(rest, prefix, max_num)
             ELSE MaxNum(rest, prefix,
                         IF num.c > max_num THEN num.c ELSE max_num)

\* the ID numbered by the count of the rules with the prefix, plus one
generate_rule_id_by_count(category, existing_rules, now) ==
    LET existing == IF existing_rules.t = "list" THEN existing_rules.l ELSE <<>>
        sharing == {i \in 1..Len(existing) :
                   /\ existing[i].t = "dict"
                   /\ HasKey(existing[i], "rule_id")
                   /\ StartsWith(existing[i].d["rule_id"].cs, Prefix(category))}
    IN  PyText(Prefix(category) \o <<"-">> \o Format03d(Cardinality(sharing) + 1))

\* _generate_rule_id(category, existing_rules) at clock reading now; any
\* exception gives the ID seeded from the time
generate_rule_id(category, existing_rules, now) ==
    LET existing == IF existing_rules.t = "list" THEN existing_rules.l ELSE <<>>
        max_num == MaxNum(existing, Prefix(category), 0)
    IN  IF category.t \in {"dict", "list"} \/ IsRaise(max_num)
        THEN PyText(<<"G", "E", "N", "-">> \o NatToChars(now))
        ELSE PyText(Prefix(category) \o <<"-">> \o Format03d(max_num.c + 1))

\* a rule as the store file holds it, with every key of the rule schema
StoreRule(rule_id, category, severity) ==
    PyDict([k \in {"rule_id", "name", "description", "category", "field",
                   "validation", "severity", "applicable_documents",
                   "enforcement"} |->
              CASE k = "rule_id" -> PyText(rule_id)
                [] k = "name" -> PyStr("Amount present")
                [] k = "description" -> PyStr("The amount must be present")
                [] k = "category" -> PyStr(category)
                [] k = "field" -> PyStr("total_amount")
                [] k = "validation" ->
                       Validation("regex", PyDict("pattern" :> PyText(<<".">>)),
                                  "Amount missing")
                [] k = "severity" -> PyStr(severity)
                [] k = "applicable_documents" -> PyList(<<PyStr("invoice")>>)
                [] k = "enforcement" ->
                       PyDict("action" :> PyStr("to_be_decided_by_agent")
                                @@ "notification" :> PyBool(TRUE))])

\* rule IDs of the four prefixes, IDs whose part after the first '-' is not
\* a number, an ID without '-', an ID with a second '-', and an ID that
\* starts with the letters of another prefix
ExistingIds ==
    {<<"I", "N", "V", "-", "0", "0", "1">>, <<"I", "N", "V", "-", "0", "0", "3">>,
     <<"I", "N", "V", "-", "9", "9", "9">>, <<"I", "N", "V", "-">>,
     <<"I", "N", "V", "-", "x", "3">>, <<"I", "N", "V">>,
     <<"I", "N", "V", "-", "0", "0", "2", "-", "9">>,
     <<"I", "N", "V", "X", "-", "0", "2", "0">>,
     <<"P", "O", "-", "0", "0", "7">>, <<"G", "E", "N", "-", "0", "0", "1">>,
     <<"G", "R", "N", "-", "0", "0", "2">>}

\* what existing_rules may hold: rules with those IDs, and a rule without
\* the key rule_id
ExistingRules ==
    {StoreRule(id, "invoice", "high") : id \in ExistingIds} \cup {rNoId}

Categories ==
    {PyStr("invoice"), PyStr("purchase_order"), PyStr("goods_receipt"),
     PyStr("general"), PyStr("contract")}

InitRuleId ==
    /\ Idle
    /\ rules = <<>>
    /\ arg \in [category : Categories,
                existing_rules : SeqsUpTo(ExistingRules, MaxRules)]
    /\ ret = PyNone

\* _generate_rule_id applied to the category and the rules
GenerateRuleId ==
    /\ ret = PyNone
    /\ ret' = generate_rule_id(arg.category, PyList(arg.existing_rules), clock)
    /\ UNCHANGED <<rules, clock, pc, documents, idx, loopVars, processed_docs,
                   all_results, result, exc, previous, arg>>
    /\ UNCHANGED storeVars

NextRuleId == GenerateRuleId

SpecRuleId == InitRuleId /\ [][NextRuleId]_vars

\* the IDs of the rules of a list that have one
IdsOf(list) ==
    {list[i].d["rule_id"].cs :
        i \in {n \in 1..Len(list) : HasKey(list[n], "rule_id")}}

\* the part of an ID between its first '-' and its next '-' or its end; the
\* empty text when the ID has no '-'
Suffix(id) ==
    LET dashes == {i \in 1..Len(id) : id[i] = "-"}
        first == CHOOSE i \in dashes : \A j \in dashes : i <= j
        later == {i \in dashes : i > first}
        stop == IF later = {} THEN Len(id) + 1
                ELSE CHOOSE i \in later : \A j \in later : i <= j
    IN  IF dashes = {} THEN <<>> ELSE SubSeq(id, first + 1, stop - 1)

\* the numbers written by the numeric suffixes of the IDs with the prefix
SuffixNumbers(ids, prefix) ==
    {DigitsValue(Suffix(id)) :
        id \in {x \in ids : /\ StartsWith(x, prefix)
                            /\ Suffix(x) # <<>>
                            /\ \A i \in 1..Len(Suffix(x)) : Suffix(x)[i] \in Digits}}

\* the largest of a set of naturals, 0 for the empty set
Largest(S) == IF S = {} THEN 0 ELSE CHOOSE n \in S : \A m \in S : m <= n

\* the prefix the category stands for
PrefixOf(category) ==
    IF category = PyStr("invoice") THEN <<"I", "N", "V">>
    ELSE IF category = PyStr("purchase_order") THEN <<"P", "O">>
    ELSE IF category = PyStr("goods_receipt") THEN <<"G", "R", "N">>
    ELSE <<"G", "E", "N">>

With(d, k, v) == PyDict((k :> v) @@ d.d)

\* _create_default_rule(description, error_message)
create_default_rule(description, error_message) ==
    PyDict([k \in {"rule_id", "name", "description", "category", "field",
                   "validation", "severity", "applicable_documents",
                   "enforcement"} |->
              CASE k = "rule_id" -> PyText(<<"G", "E", "N", "-", "0", "0", "1">>)
                [] k = "name" -> PyStr("Default Rule")
                [] k = "description" -> description
                [] k = "category" -> PyStr("general")
                [] k = "field" -> PyStr("unknown")
                [] k = "validation" ->
                       PyDict([v \in {"type", "parameters", "error_message"} |->
                                 CASE v = "type" -> PyStr("custom")
                                   [] v = "parameters" -> EmptyDict
                                   [] v = "error_message" -> error_message])
                [] k = "severity" -> PyStr("medium")
                [] k = "applicable_documents" ->
                       PyList(<<PyStr("invoice"), PyStr("purchase_order"),
                                PyStr("goods_receipt")>>)
                [] k = "enforcement" ->
                       PyDict("action" :> PyStr("to_be_decided_by_agent")
                                @@ "notification" :> PyBool(TRUE))])

\* lines 147-152: enforcement.action is overwritten and notification
\* defaulted; TypeError when the proposal or its enforcement is no mapping
WithEnforcement(rule) ==
    IF rule.t # "dict" THEN Raise("TypeError")
    ELSE IF ~HasKey(rule, "enforcement")
    THEN With(rule, "enforcement",
              PyDict("action" :> PyStr("to_be_decided_by_agent")
                       @@ "notification" :> PyBool(TRUE)))
    ELSE IF rule.d["enforcement"].t # "dict" THEN Raise("TypeError")
    ELSE With(rule, "enforcement",
              With(With(rule.d["enforcement"], "notification",
                        Get(rule.d["enforcement"], "notification", PyBool(TRUE))),
                   "action", PyStr("to_be_decided_by_agent")))

\* generate_rule(instruction) when the answer of the language model is
\* response: the parsed JSON value, or the exception of the call or of
\* json.loads
generate_rule(instruction, response, store, now) ==
    LET rule == WithEnforcement(response)
    IN  IF IsRaise(response) /\ response.exc = "JSONDecodeError"
        THEN create_default_rule(instruction,
                                 PyStr("Failed to generate specific validation rule"))
        ELSE IF IsRaise(response)
        THEN create_default_rule(instruction, Msg("Error generating rule: {}",
                                                  PyStr(response.exc)))
        ELSE IF IsRaise(rule)
        THEN create_default_rule(instruction, Msg("Error generating rule: {}",
                                                  PyStr(rule.exc)))
        ELSE With(rule, "rule_id",
                  generate_rule_id(Get(rule, "category", PyStr("general")),
                                   PyList(store), now))

\* what the language model may answer: complete proposals, proposals that lack a
\* key or carry a value outside the schema, a JSON value that is no
\* object, and no usable answer at all
Proposals ==
    LET p == Without(StoreRule(<<>>, "invoice", "high"), "rule_id")
    IN  {p, With(p, "category", PyStr("general")), Without(p, "category"),
         Without(p, "name"), With(p, "severity", PyStr("critical")),
         With(p, "category", PyStr("contract")), Without(p, "enforcement")}

Responses ==
    Proposals \cup {PyList(<<>>), Raise("JSONDecodeError"), Raise("Exception")}

MaxStore == 3

\* stores whose rules satisfy the schema and have pairwise distinct IDs
InitialStores ==
    LET pool == {StoreRule(<<"I", "N", "V", "-", "0", "0", "1">>, "invoice", "high"),
                 StoreRule(<<"I", "N", "V", "-", "0", "0", "3">>, "invoice", "low"),
                 StoreRule(<<"G", "E", "N", "-", "0", "0", "1">>, "general", "medium")}
    IN  {s \in SeqsUpTo(pool, MaxRules) :
           \A i, j \in 1..Len(s) : i # j => s[i] # s[j]}

InitStore ==
    /\ Idle
    /\ rules \in InitialStores
    /\ arg = PyNone
    /\ ret = PyNone

\* generate_rule: the returned rule is kept in arg
GenerateRule ==
    /\ pc = "idle"
    /\ Len(rules) < MaxStore
    /\ \E response \in Responses :
           arg' = generate_rule(PyStr("instruction"), response, rules, clock)
    /\ pc' = "generated"
    /\ UNCHANGED <<rules, clock, documents, idx, loopVars, processed_docs,
                   all_results, result, exc, previous, ret>>
    /\ UNCHANGED storeVars

\* update_compliance_rules(arg): the rule is appended, then the file is
\* written; the return value tells whether the write succeeded
UpdateComplianceRules ==
    /\ pc = "generated"
    /\ rules' = Append(rules, arg)
    /\ \E written \in BOOLEAN : ret' = PyBool(written)
    /\ pc' = "idle"
    /\ UNCHANGED <<clock, documents, idx, loopVars, processed_docs,
                   all_results, result, exc, previous, arg>>
    /\ UNCHANGED storeVars

NextStore == GenerateRule \/ UpdateComplianceRules

SpecStore == InitStore /\ [][NextStore]_vars

\* the rule IDs of a store, position by position (None where a rule has none)
RuleIdAt(store, i) == Get(store[i], "rule_id", PyNone)

\* C19: rule IDs stay unique in the store: starting from a store whose
\* rule_ids are pairwise distinct, after any sequence of generate_rule
\* (whether the call succeeds or falls back to the default rule), each
\* followed by update_compliance_rules of the returned rule, no two rules
\* of the store share a rule_id.
C19_RuleIdsUnique ==
    pc = "idle" =>
        \A i, j \in 1..Len(rules) :
            i # j => RuleIdAt(rules, i) # RuleIdAt(rules, j)

RequiredKeys ==
    {"rule_id", "category", "name", "description", "severity", "validation",
     "applicable_documents", "enforcement"}

KnownCategories ==
    {PyStr("invoice"), PyStr("purchase_order"), PyStr("goods_receipt"),
     PyStr("general")}

\* the actions of the rule schema, and the one generate_rule writes
RecognizedActions ==
    {PyStr("reject"), PyStr("flag_for_review"), PyStr("warning"),
     PyStr("block"), PyStr("notify"), PyStr("to_be_decided"),
     PyStr("to_be_decided_by_agent")}

\* the rule passes every check of the schema
SchemaValid(rule) ==
    /\ rule.t = "dict"
    /\ RequiredKeys \subseteq DOMAIN rule.d
    /\ rule.d["category"] \in KnownCategories
    /\ rule.d["severity"] \in Severities
    /\ rule.d["enforcement"].t = "dict"
    /\ Get(rule.d["enforcement"], "action", PyNone) \in RecognizedActions

\* C20: update_compliance_rules rejects, leaving the store unchanged, a
\* rule that lacks any of rule_id, category, name, description, severity,
\* validation, applicable_documents, enforcement, or whose category is not
\* a known document type or 'general', or whose severity is not high,
\* medium or low, or whose enforcement.action is not recognized; only rules
\* passing all checks are in the store.
C20_OnlyValidRulesStored ==
    \A i \in 1..Len(rules) : SchemaValid(rules[i])

(***************************************************************************)
(* The persisted rules file and the two handles on it: the agent's         *)
(* self.rules (header and rules) and the generator's self.schema           *)
(***************************************************************************)
\* instants of datetime.now() per calendar day
TicksPerDay == 2

MaxTime == 2

\* datetime.now().strftime("%Y-%m-%d") at the instant now
strftime(now) == PyStr(<<"%Y-%m-%d", now \div TicksPerDay>>)

Metadata(now, description) ==
    PyDict("last_updated" :> strftime(now)
             @@ "author" :> PyStr("Compliance Agent")
             @@ "description" :> description)

KnownDocumentTypes ==
    PyList(<<PyStr("invoice"), PyStr("purchase_order"), PyStr("goods_receipt")>>)

\* the dict literal of clear_rules, lines 26-39
empty_rules(now) ==
    PyDict("version" :> PyStr("1.0")
             @@ "metadata" :> Metadata(now,
                    PyStr("Structured compliance rules for document validation"))
             @@ "document_types" :> KnownDocumentTypes
             @@ "rules" :> PyList(<<>>))

\* the default of _load_schema, lines 43-52
default_schema(now) ==
    PyDict("version" :> PyStr("1.0")
             @@ "metadata" :> Metadata(now, PyStr("Default schema structure"))
             @@ "document_types" :> KnownDocumentTypes
             @@ "rules" :> PyList(<<>>))

\* _load_rules when json.load of the file gives f (a value, or the
\* exception of open or of json.load)
load_rules(f) ==
    IF IsRaise(f) THEN PyDict("rules" :> PyList(<<>>)) ELSE f

\* _load_schema when json.load of the file gives f
load_schema(f, now) ==
    IF IsRaise(f) THEN default_schema(now)
    ELSE IF f.t # "dict" THEN default_schema(now)
    ELSE IF ~HasKey(f, "rules") THEN default_schema(now)
    ELSE IF ~HasKey(f, "document_types") THEN default_schema(now)
    ELSE IF ~HasKey(f, "metadata") THEN default_schema(now)
    ELSE f

\* json.dump accepts the value: a Decimal is not JSON serializable
RECURSIVE Serializable(_)
Serializable(v) ==
    CASE v.t = "dec" -> FALSE
      [] v.t = "dict" -> \A k \in DOMAIN v.d : Serializable(v.d[k])
      [] v.t = "list" -> \A i \in 1..Len(v.l) : Serializable(v.l[i])
      [] OTHER -> TRUE

\* what the file system does to a write: it goes through, open(path, 'w')
\* fails, or the write fails after open has truncated the file
IO == {"ok", "open fails", "write fails"}

\* with open(path, 'w') as f: json.dump(obj, f, indent=4) on a file that
\* held old: what the file holds afterwards (json.load of a file cut short
\* raises JSONDecodeError) and the exception that left the block, "" if none
WriteFile(old, obj, io) ==
    CASE io = "open fails" -> [file |-> old, exc |-> "OSError"]
      [] io = "write fails" -> [file |-> Raise("JSONDecodeError"), exc |-> "OSError"]
      [] ~Serializable(obj) -> [file |-> Raise("JSONDecodeError"), exc |-> "TypeError"]
      [] OTHER -> [file |-> obj, exc |-> ""]

\* the agent's self.rules as one mapping
AgentStore == With(header, "rules", PyList(rules))

\* self.rules = store
Assign(store) ==
    /\ header' = Without(store, "rules")
    /\ rules' = Get(store, "rules", PyList(<<>>)).l

\* a persisted store that holds the rules rs, last written at the instant now
FullStore(rs, now) == With(empty_rules(now), "rules", PyList(rs))

rInv1 == StoreRule(<<"I", "N", "V", "-", "0", "0", "1">>, "invoice", "high")

rInv2 == StoreRule(<<"I", "N", "V", "-", "0", "0", "2">>, "invoice", "low")

\* a rule that carries a Decimal, which json.dump rejects
rDecimal ==
    With(StoreRule(<<"G", "E", "N", "-", "0", "0", "1">>, "general", "medium"),
         "threshold", PyDec(15, 1))

\* what compliance_rules.json may hold when the handles are constructed:
\* nothing (no file), no JSON, a mapping without document_types and
\* metadata, or a store
Files ==
    {Raise("FileNotFoundError"), Raise("JSONDecodeError"),
     PyDict("rules" :> PyList(<<rInv1>>)), FullStore(<<>>, 0),
     FullStore(<<rInv1>>, 0)}

\* the rules handed to update_compliance_rules
NewRules == {rInv2, rDecimal}

\* the agent and the generator have been constructed on the same file
InitFile ==
    /\ Quiet
    /\ file \in Files
    /\ header = Without(load_rules(file), "rules")
    /\ rules = Get(load_rules(file), "rules", PyList(<<>>)).l
    /\ schema = load_schema(file, 0)
    /\ arg = PyNone
    /\ ret = PyNone

\* ComplianceAgent(): self.rules = self._load_rules()
NewAgent ==
    /\ pc = "idle"
    /\ Assign(load_rules(file))
    /\ UNCHANGED <<clock, pc, documents, idx, loopVars, processed_docs,
                   all_results, result, exc, previous, fnVars, file, schema>>

\* ComplianceRuleGenerator(): self.schema = self._load_schema()
NewGenerator ==
    /\ pc = "idle"
    /\ schema' = load_schema(file, clock)
    /\ UNCHANGED <<rules, clock, pc, documents, idx, loopVars, processed_docs,
                   all_results, result, exc, previous, fnVars, header, file>>

\* clear_rules with self.rules assigned before the file is written
ClearRules_assign_first ==
    /\ pc \in {"idle", "done"}
    /\ \E io \in IO :
         \E w \in {WriteFile(file, empty_rules(clock), io)} :
             /\ file' = w.file
             /\ exc' = w.exc
             /\ Assign(empty_rules(clock))
    /\ UNCHANGED <<clock, pc, documents, idx, loopVars, processed_docs,
                   all_results, result, previous, fnVars, schema>>

\* clear_rules: the file is written, then self.rules assigned; an exception
\* of the write is caught (and kept in exc) and self.rules left alone
ClearRules ==
    /\ pc \in {"idle", "done"}
    /\ \E io \in IO :
         \E w \in {WriteFile(file, empty_rules(clock), io)} :
             /\ file' = w.file
             /\ exc' = w.exc
             /\ IF w.exc = "" THEN Assign(empty_rules(clock))
                ELSE UNCHANGED <<header, rules>>
    /\ UNCHANGED <<clock, pc, documents, idx, loopVars, processed_docs,
                   all_results, result, previous, fnVars, schema>>

\* update_compliance_rules(new_rule) on the schema sch at the instant now,
\* the file holding old: the schema and the file afterwards, and the value
\* returned.  The rule is appended and the date set before the file is
\* opened; every exception is caught and turned into False
update_compliance_rules(sch, new_rule, now, old, io) ==
    LET appended == With(sch, "rules",
                         PyList(Append(sch.d["rules"].l, new_rule)))
        stamped == With(appended, "metadata",
                        With(appended.d["metadata"], "last_updated",
                             strftime(now)))
        w == WriteFile(old, stamped, io)
    IN  IF sch.d["rules"].t # "list"
        THEN [schema |-> sch, file |-> old, ret |-> PyBool(FALSE)]
        ELSE IF sch.d["metadata"].t # "dict"
        THEN [schema |-> appended, file |-> old, ret |-> PyBool(FALSE)]
        ELSE [schema |-> stamped, file |-> w.file, ret |-> PyBool(w.exc = "")]

\* the generator's update_compliance_rules(new_rule); arg keeps new_rule
\* and ret the value returned
UpdateStore ==
    /\ pc \in {"idle", "done"}
    /\ Len(schema.d["rules"].l) < MaxStore
    /\ \E new_rule \in NewRules, io \in IO :
         \E u \in {update_compliance_rules(schema, new_rule, clock, file, io)} :
             /\ schema' = u.schema
             /\ file' = u.file
             /\ ret' = u.ret
             /\ arg' = new_rule
    /\ UNCHANGED <<rules, clock, pc, documents, idx, loopVars, processed_docs,
                   all_results, result, exc, previous, header>>

\* time passes between two operations on the store
Advance ==
    /\ pc = "idle"
    /\ clock < MaxTime
    /\ clock' = clock + 1
    /\ UNCHANGED <<rules, pc, documents, idx, loopVars, processed_docs,
                   all_results, result, exc, previous, fnVars, storeVars>>

NextFile ==
    \/ NewAgent
    \/ NewGenerator
    \/ ClearRules
    \/ UpdateStore
    \/ Advance

SpecFile == InitFile /\ [][NextFile]_vars

\* the store without the date of its last update
WithoutDate(store) ==
    With(store, "metadata", Without(store.d["metadata"], "last_updated"))

\* the agent's store and the file are as a clear_rules that went through
\* leaves them
JustCleared ==
    \E now \in 0..MaxTime :
        AgentStore = empty_rules(now) /\ file = empty_rules(now)

\* the store has no rules and the three document types
Emptied(store) ==
    /\ store.t = "dict"
    /\ Get(store, "rules", PyNone) = PyList(<<>>)
    /\ Get(store, "document_types", PyNone) = KnownDocumentTypes

C22_LoadFallsBack ==
    [][/\ (NewAgent /\ IsRaise(file)) => Emptied(AgentStore')
       /\ (NewGenerator /\ IsRaise(file)) => Emptied(schema')]_vars

\* what holds of the two loads: the generator's default has the three
\* document types, the agent's has rules = [] and nothing else
C22_AgentFallbackBare ==
    [][/\ (NewAgent /\ IsRaise(file)) =>
             AgentStore' = PyDict("rules" :> PyList(<<>>))
       /\ (NewGenerator /\ IsRaise(file)) => Emptied(schema')]_vars

\* the extraction step reported that it failed on the document
ExtractionFailed(doc) ==
    Get(Get(doc, "metadata", EmptyDict), "success", PyNone) = PyBool(FALSE)

\* C23: a document whose extraction reported metadata.success = false
\* (document_type 'unknown', vendor_info null, no extracted fields) is
\* skipped by validate_documents: no rule is evaluated against it, and the
\* call goes on to the rest of the batch instead of ending at it.
C23_FailedExtractionSkipped ==
    \A i \in 1..Len(documents) :
        ExtractionFailed(documents[i]) =>
            /\ ~(pc = "rules" /\ idx = i)
            /\ ~(pc = "raised" /\ idx = i)

(***************************************************************************)
(* ComplianceReportGenerator: the report of a validation result            *)
(***************************************************************************)
\* d.get(k, default) on the mappings validate_documents builds
RecGet(d, k, default) == IF k \in DOMAIN d THEN d[k] ELSE default

\* status.upper()
Upper(status) ==
    CASE status = "passed" -> "PASSED"
      [] status = "failed" -> "FAILED"
      [] status = "error" -> "ERROR"
      [] status = "unknown" -> "UNKNOWN"

NoSummary == [k \in {} |-> 0]

\* the status of a document section, lines 30-35
SectionStatus(doc) ==
    LET summary == RecGet(doc, "summary", NoSummary)
    IN  IF RecGet(summary, "failed", 0) > 0 THEN "failed"
        ELSE IF RecGet(summary, "errors", 0) > 0 THEN "error"
        ELSE "passed"

\* what one <div class="rule"> shows of an outcome, lines 42-51
RuleEntry(rule) ==
    LET rule_status == RecGet(rule, "status", "unknown")
    IN  [class |-> rule_status,
         badge |-> Upper(rule_status),
         name |-> StrOf(RecGet(rule, "name", PyStr("Unknown Rule"))),
         field |-> StrOf(RecGet(rule, "field", PyStr("Unknown"))),
         message |-> StrOf(RecGet(rule, "message", PyStr("No message")))]

\* _format_document_section(doc, index): what the section shows
format_document_section(doc, index) ==
    LET doc_type == RecGet(doc, "document_type", PyStr("Unknown"))
        summary == RecGet(doc, "summary", NoSummary)
        data == RecGet(doc, "document_data", EmptyDict)
        results == RecGet(doc, "validation_results", <<>>)
    IN  [index |-> index,
         doc_type |-> StrOf(doc_type),
         class |-> SectionStatus(doc),
         badge |-> Upper(SectionStatus(doc)),
         data |-> [k \in DOMAIN data.d |-> StrOf(data.d[k])],
         rules |-> [i \in 1..Len(results) |-> RuleEntry(results[i])],
         total_rules |-> RecGet(summary, "total_rules", 0),
         passed |-> RecGet(summary, "passed", 0),
         failed |-> RecGet(summary, "failed", 0),
         errors |-> RecGet(summary, "errors", 0)]

\* generate_report(results) at the instant now: the numbers of
\* the overall summary and the document sections
generate_report(results, now) ==
    LET docs == RecGet(results, "document_results", <<>>)
        failed(doc) == RecGet(RecGet(doc, "summary", NoSummary), "failed", 0)
        errors(doc) == RecGet(RecGet(doc, "summary", NoSummary), "errors", 0)
    IN  [generated_on |-> now,
         total_docs |-> Len(docs),
         total_rules |->
             Sum([i \in 1..Len(docs) |->
                    Len(RecGet(docs[i], "validation_results", <<>>))]),
         passed_docs |-> Cardinality({i \in 1..Len(docs) : failed(docs[i]) = 0}),
         failed_docs |-> Cardinality({i \in 1..Len(docs) : failed(docs[i]) > 0}),
         error_docs |-> Cardinality({i \in 1..Len(docs) : errors(docs[i]) > 0}),
         sections |-> [i \in 1..Len(docs) |->
                         format_document_section(docs[i], i)]]

\* validate_documents on rules and batches that give passed, failed and
\* error outcomes, then generate_report on what it returned
InitReport ==
    /\ Idle
    /\ rules \in SeqsUpTo(RulePoolTwice, MaxRules)
    /\ arg = PyNone
    /\ ret = PyNone

CallReport == CallFrom(SeqsUpTo(DocPoolTwice, MaxDocs))

\* report_generator.generate_report(result); ret keeps the report
GenerateReport ==
    /\ pc = "done"
    /\ ret' = generate_report(result, clock)
    /\ pc' = "reported"
    /\ UNCHANGED <<rules, clock, documents, idx, loopVars, processed_docs,
                   all_results, result, exc, previous, arg, storeVars>>

NextReport ==
    \/ CallReport
    \/ SkipDocument
    \/ BeginDocument
    \/ ValidateRule
    \/ FinishDocument
    \/ Return
    \/ Tick
    \/ GenerateReport

SpecReport == InitReport /\ [][NextReport]_vars

Reported == pc = "reported"

\* the field of the rule an outcome comes from
FieldChecked(outcome) ==
    LET rule == CHOOSE r \in {rules[i] : i \in 1..Len(rules)} :
                    r.d["rule_id"] = outcome.rule_id
    IN  StrOf(rule.d["field"])

\* the section shows the type and the counts of the document result
ShowsDocument(section, doc) ==
    /\ section.doc_type = StrOf(doc.document_type)
    /\ section.passed = NumWithStatus(doc.validation_results, "passed")
    /\ section.failed = NumWithStatus(doc.validation_results, "failed")
    /\ section.errors = NumWithStatus(doc.validation_results, "error")
    /\ Len(section.rules) = Len(doc.validation_results)

\* C24: for every result of validate_documents, generate_report emits one
\* section per entry of document_results showing its type and its
\* passed/failed/error counts, and in that section one entry per outcome
\* showing that outcome's status, the field the rule checked, and its
\* message.
C24_ReportShowsOutcomes ==
    Reported =>
        /\ Len(ret.sections) = Len(result.document_results)
        /\ \A i \in 1..Len(result.document_results) :
             LET doc == result.document_results[i]
                 section == ret.sections[i]
             IN  /\ ShowsDocument(section, doc)
                 /\ \A k \in 1..Len(doc.validation_results) :
                      LET outcome == doc.validation_results[k]
                      IN  /\ section.rules[k].class = outcome.status
                          /\ section.rules[k].field = FieldChecked(outcome)
                          /\ section.rules[k].message = StrOf(outcome.message)

\* what holds of the report: sections, types, counts, statuses and messages
\* are shown, and every entry shows 'Unknown' as its field
C24_FieldShownUnknown ==
    Reported =>
        /\ Len(ret.sections) = Len(result.document_results)
        /\ \A i \in 1..Len(result.document_results) :
             LET doc == result.document_results[i]
                 section == ret.sections[i]
             IN  /\ ShowsDocument(section, doc)
                 /\ \A k \in 1..Len(doc.validation_results) :
                      LET outcome == doc.validation_results[k]
                      IN  /\ section.rules[k].class = outcome.status
                          /\ section.rules[k].field = PyStr("Unknown")
                          /\ section.rules[k].message = StrOf(outcome.message)

\* the sections of a report that carry the given badge
WithBadge(report, badge) ==
    {i \in 1..Len(report.sections) : report.sections[i].badge = badge}

\* C29: in every report, the 'Documents Passed' count of the overall summary
\* equals the number of document sections whose status badge is PASSED, and
\* 'Documents Failed' the number of sections whose badge is FAILED.
C29_CountsMatchBadges ==
    Reported =>
        /\ ret.passed_docs = Cardinality(WithBadge(ret, "PASSED"))
        /\ ret.failed_docs = Cardinality(WithBadge(ret, "FAILED"))

\* what holds of the counts: 'Documents Passed' counts the sections whose
\* badge is PASSED or ERROR
C29_PassedCountsErrors ==
    Reported =>
        /\ ret.passed_docs = Cardinality(WithBadge(ret, "PASSED")
                                           \cup WithBadge(ret, "ERROR"))
        /\ ret.failed_docs = Cardinality(WithBadge(ret, "FAILED"))

(***************************************************************************)
(* Validation runs of an agent whose store is also cleared and appended to *)
(***************************************************************************)
RulePoolRun == {rAmountRange, rDefault}

DocPoolRun == {dInvoiceA, dUntyped, dFailed}

\* the agent and the generator have loaded a file that holds the rules
InitRun ==
    /\ Quiet
    /\ rules \in SeqsUpTo(RulePoolRun, MaxRules)
    /\ file = FullStore(rules, 0)
    /\ header = Without(file, "rules")
    /\ schema = load_schema(file, 0)
    /\ arg = PyNone
    /\ ret = PyNone

CallRun ==
    /\ pc \in {"idle", "done"}
    /\ \E docs \in SeqsUpTo(DocPoolRun, MaxDocs) : Enter(docs)
    /\ UNCHANGED previous

\* a step of validate_documents
Validating ==
    \/ CallRun
    \/ SkipDocument
    \/ BeginDocument
    \/ ValidateRule
    \/ FinishDocument
    \/ Return

NextRun ==
    \/ Validating
    \/ ClearRules
    \/ UpdateStore

SpecRun == InitRun /\ [][NextRun]_vars

\* C25: validate_documents is read-only on the rule store: no step of a
\* validation run, over any batch, changes the agent's in-memory rules or
\* the persisted rules file, and a step that changes either is a step of
\* clear_rules or of update_compliance_rules.
C25_ValidationReadOnly ==
    [][/\ Validating => UNCHANGED <<rules, header, file>>
       /\ ~UNCHANGED <<rules, header, file>> => ClearRules \/ UpdateStore]_vars

\* a run has ended on a store with a rule while the file holds a rule the
\* generator has appended since the agent loaded it
C25_Witness ==
    /\ pc = "done"
    /\ Len(result.document_results) > 0
    /\ Len(rules) > 0
    /\ file.t = "dict"
    /\ Len(file.d["rules"].l) > Len(rules)

(***************************************************************************)
(* The resolved fields of one document                                     *)
(***************************************************************************)
\* the types the extraction step gives a document
DocTypes == {"invoice", "purchase order", "grn", "unknown"}

\* what extract_document_fields may give: the last one has a field named
\* like an injected key
ExtractedFields ==
    {EmptyDict,
     PyDict("total_amount" :> PyInt(100)),
     PyDict("total_amount" :> PyText(<<"1", "0", "0">>)
              @@ "po_reference" :> PyNone),
     PyDict("total_amount" :> PyFloat(1005, 1, 0)
              @@ "vendor_name" :> PyText(<<"A", "c", "m", "e">>))}

\* what detect_vendor may give, and the None of a failed doc_handler
VendorInfos ==
    {PyNone, EmptyDict,
     PyDict("name" :> PyText(<<"A", "c", "m", "e">>)),
     PyDict("name" :> PyNone @@ "address" :> PyDict("city" :> PyStr("Rome"))),
     PyDict("name" :> PyText(<<"A", "c", "m", "e">>)
              @@ "address" :> PyDict("city" :> PyStr("Rome"))
              @@ "contact" :> PyDict("email" :> PyStr("a@acme.example")))}

\* typed documents with and without the key vendor_info
ResolveInputs ==
    UNION {{Document(ty, extracted, vendor_info),
            Without(Document(ty, extracted, PyNone), "vendor_info")} :
             ty \in DocTypes, extracted \in ExtractedFields,
             vendor_info \in VendorInfos}

InitResolve ==
    /\ Idle
    /\ rules = <<>>
    /\ arg \in ResolveInputs
    /\ ret = PyNone

\* the dict literal of lines 76-81 on the document arg
Resolve ==
    /\ ret = PyNone
    /\ ret' = ResolveFields(arg)
    /\ UNCHANGED <<rules, clock, pc, documents, idx, loopVars, processed_docs,
                   all_results, result, exc, previous, arg, storeVars>>

NextResolve == Resolve

SpecResolve == InitResolve /\ [][NextResolve]_vars

\* vendor_info[key] of the document, or the default when the document has
\* no vendor_info or vendor_info has no such key
VendorPart(doc, key, default) ==
    IF ~HasKey(doc, "vendor_info") \/ doc.d["vendor_info"] = PyNone THEN default
    ELSE IF ~HasKey(doc.d["vendor_info"], key) THEN default
    ELSE doc.d["vendor_info"].d[key]

\* C26: for every document with a document_type, the resolved mapping has
\* as keys exactly the keys of extracted_fields plus vendor_name,
\* vendor_address and vendor_contact; every extracted field keeps its
\* value; the three vendor keys hold vendor_info's name, address and
\* contact, or null, {} and {} when vendor_info or the sub-key is absent.
C26_ResolvedFields ==
    Evaluated =>
        /\ ~IsRaise(ret)
        /\ DOMAIN ret.d = DOMAIN arg.d["extracted_fields"].d
                            \cup {"vendor_name", "vendor_address", "vendor_contact"}
        /\ \A k \in DOMAIN arg.d["extracted_fields"].d :
               ret.d[k] = arg.d["extracted_fields"].d[k]
        /\ ret.d["vendor_name"] = VendorPart(arg, "name", PyNone)
        /\ ret.d["vendor_address"] = VendorPart(arg, "address", EmptyDict)
        /\ ret.d["vendor_contact"] = VendorPart(arg, "contact", EmptyDict)

\* what holds of the resolved mapping: a null vendor_info raises
\* AttributeError; otherwise the keys and the vendor keys are as claimed and
\* an extracted field keeps its value unless it is named like a vendor key
C26_VendorKeysWin ==
    Evaluated =>
        IF HasKey(arg, "vendor_info") /\ arg.d["vendor_info"] = PyNone
        THEN ret = Raise("AttributeError")
        ELSE /\ DOMAIN ret.d = DOMAIN arg.d["extracted_fields"].d
                                 \cup {"vendor_name", "vendor_address",
                                       "vendor_contact"}
             /\ \A k \in DOMAIN arg.d["extracted_fields"].d
                          \ {"vendor_name", "vendor_address", "vendor_contact"} :
                    ret.d[k] = arg.d["extracted_fields"].d[k]
             /\ ret.d["vendor_name"] = VendorPart(arg, "name", PyNone)
             /\ ret.d["vendor_address"] = VendorPart(arg, "address", EmptyDict)
             /\ ret.d["vendor_contact"] = VendorPart(arg, "contact", EmptyDict)

\* the file is as a clear_rules that went through left it
FileCleared == \E now \in 0..MaxTime : file = empty_rules(now)

\* C27: clearing is durable across store handles: after clear_rules has
\* gone through the persisted store has no rules, and an
\* update_compliance_rules(r) that then goes through, by any generator
\* instance, also one constructed before the clear, leaves the persisted
\* store with exactly the one rule r.
C27_ClearDurable ==
    [][/\ (ClearRules /\ exc' = "") => file'.d["rules"] = PyList(<<>>)
       /\ (UpdateStore /\ FileCleared /\ ret' = PyBool(TRUE)) =>
              file'.d["rules"] = PyList(<<arg'>>)]_vars

\* what holds: the file is left with the one rule when the generator's
\* schema was loaded after the clear; otherwise with the rules the
\* generator had loaded, then r
C27_StaleHandleRestores ==
    [][/\ (ClearRules /\ exc' = "") => file'.d["rules"] = PyList(<<>>)
       /\ (UpdateStore /\ FileCleared /\ ret' = PyBool(TRUE)) =>
              /\ file'.d["rules"] = PyList(Append(schema.d["rules"].l, arg'))
              /\ schema = file => file'.d["rules"] = PyList(<<arg'>>)]_vars

\* the last element of a list of rules
Last(list) == list.l[Len(list.l)]

\* C28: update_compliance_rules is all-or-nothing: when it returns False the
\* generator's in-memory rule list and metadata.last_updated are as before
\* the call; when it returns True the new rule is the last element of the
\* in-memory list and of the persisted one.
C28_UpdateAllOrNothing ==
    [][UpdateStore =>
         /\ ret' = PyBool(FALSE) =>
              /\ schema'.d["rules"] = schema.d["rules"]
              /\ schema'.d["metadata"] = schema.d["metadata"]
         /\ ret' = PyBool(TRUE) =>
              /\ Last(schema'.d["rules"]) = arg'
              /\ Last(file'.d["rules"]) = arg']_vars

\* what holds: the rule is the last element of the in-memory list and the
\* date is set whatever the call returns; the file holds the in-memory
\* schema when it returns True
C28_AppendedBeforeWrite ==
    [][UpdateStore =>
         /\ schema'.d["rules"] = PyList(Append(schema.d["rules"].l, arg'))
         /\ schema'.d["metadata"].d["last_updated"] = strftime(clock)
         /\ ret' = PyBool(TRUE) => file' = schema'
         /\ ret' = PyBool(FALSE) => file' \in {file, Raise("JSONDecodeError")}]_vars

(***************************************************************************)
(* The type the extraction step gives a document, and the rules selected   *)
(* for it                                                                  *)
(***************************************************************************)
\* doc_classifer when the stripped, lower-cased answer of the language
\* model is classification (lines 55-61)
doc_classifer(classification) ==
    IF classification \notin {"invoice", "purchase order", "grn", "unknown"}
    THEN "unknown"
    ELSE classification

\* answers of the language model
Classifications ==
    {"invoice", "purchase order", "grn", "unknown", "purchase_order",
     "goods_receipt", "receipt"}

InitSelect ==
    /\ Idle
    /\ rules \in Stores
    /\ arg \in Classifications
    /\ ret = PyNone

\* doc_handler: the document gets the type doc_classifer returns
Classify ==
    /\ pc = "idle"
    /\ documents' = <<Document(doc_classifer(arg),
                               PyDict("total_amount" :> PyInt(100)), EmptyDict)>>
    /\ pc' = "classified"
    /\ UNCHANGED <<rules, clock, idx, loopVars, processed_docs, all_results,
                   result, exc, previous, fnVars, storeVars>>

\* validate_documents, lines 86-87: the rules selected for the document
Select ==
    /\ pc = "classified"
    /\ ret' = PyList(ApplicableRules(rules, DocType(documents[1])))
    /\ pc' = "selected"
    /\ UNCHANGED <<rules, clock, documents, idx, loopVars, processed_docs,
                   all_results, result, exc, previous, arg, storeVars>>

NextSelect == Classify \/ Select

SpecSelect == InitSelect /\ [][NextSelect]_vars

\* the store's name for the kind of document a classification stands for
StoreType(classification) ==
    CASE classification = "invoice" -> PyStr("invoice")
      [] classification = "purchase order" -> PyStr("purchase_order")
      [] classification = "grn" -> PyStr("goods_receipt")

\* C30: every document type other than 'unknown' that the extraction step
\* can assign is one of the store's document_types, and a rule whose
\* applicable_documents lists the store's type for the document's kind
\* (invoice, purchase order, goods-receipt note) is selected for it.
C30_ClassifiedTypesKnown ==
    (pc = "selected" /\ DocType(documents[1]) # PyStr("unknown")) =>
        /\ \E i \in 1..Len(KnownDocumentTypes.l) :
               KnownDocumentTypes.l[i] = DocType(documents[1])
        /\ \A i \in 1..Len(rules) :
               AppliesTo(rules[i], StoreType(DocType(documents[1]).s)) =>
                   \E k \in 1..Len(ret.l) : ret.l[k] = rules[i]

\* what holds: only 'invoice' is named alike on both sides; for a document
\* classified 'purchase order' or 'grn' the rules selected are those that
\* list that very text
C30_OnlyInvoiceSelected ==
    pc = "selected" =>
        /\ DocType(documents[1]) \in {PyStr("purchase order"), PyStr("grn")} =>
               ~\E i \in 1..Len(KnownDocumentTypes.l) :
                    KnownDocumentTypes.l[i] = DocType(documents[1])
        /\ \A i \in 1..Len(rules) :
               AppliesTo(rules[i], DocType(documents[1])) <=>
                   \E k \in 1..Len(ret.l) : ret.l[k] = rules[i]

====
